---- MODULE Spec2Model ----
(***************************************************************************)
(* Model of the ViewPort SFT recording tool (Turing_tooling/sft_utils/     *)
(* overlay_tool): the pygame event loop of ViewPortWindow, the background  *)
(* worker threads it starts (refresh, action, sleep, finish), the          *)
(* TrajectoryManager they record into and the VMInterface they call.       *)
(*                                                                         *)
(* Granularity.  The event loop is one thread: each event handler is one   *)
(* action.  A worker thread is a small program counter machine: one action *)
(* per statement group that reads or writes state shared with the event    *)
(* loop or with another worker.  record_action, save_trajectory and        *)
(* get_screenshot_with_retry are each one step of the calling worker.      *)
(***************************************************************************)
EXTENDS Integers, Sequences, FiniteSets, Bags, TLC

VARIABLES
    \* ---- ViewPortWindow (viewport_window.py:76-167) ----
    vm_width, vm_height,          \* VM canvas size
    window_width, window_height,  \* fullscreen window = screen size
    viewport_x, viewport_y,       \* pan offset
    is_running, is_busy, show_overlay,
    current_screenshot,           \* displayed frame, None before the first one
    status_message, last_action,
    overlay_selected_hotkey, overlay_selected_key, overlay_selected_sleep,
    overlay_type_text, overlay_type_active,
    picker_active,                \* None, "hotkey", "key" or "sleep"
    drag_mode_active, drag_start_point,
    \* ---- TrajectoryManager (trajectory_manager.py:52-55) ----
    trajectory, step_count,
    saved_screenshots,            \* step indices k with a file step_k_before.png
    saved_log,                    \* trajectory.jsonl: None until written
    \* ---- VMInterface (vm_interface.py:39-42) and the remote VM ----
    last_screenshot,              \* VMInterface._last_screenshot
    dispatched,                   \* the remote channel's log of commands
    \* ---- threads ----
    main_pc,                      \* "init", "loop" or "exited" (start())
    workers,                      \* background threads, by slot
    \* ---- history (not program state) ----
    n_accepted,                   \* intents that passed the busy gate
    dropped_flip                  \* flips at every intent the busy gate dropped

winVars  == <<vm_width, vm_height, window_width, window_height>>
viewVars == <<viewport_x, viewport_y>>
selVars  == <<overlay_selected_hotkey, overlay_selected_key, overlay_selected_sleep>>
typeVars == <<overlay_type_text, overlay_type_active>>
dragVars == <<drag_mode_active, drag_start_point>>
trajVars == <<trajectory, step_count, saved_screenshots, saved_log>>
vmVars   == <<last_screenshot, dispatched>>
histVars == <<n_accepted, dropped_flip>>
uiVars   == <<show_overlay, selVars, typeVars, picker_active, dragVars>>
vars == <<winVars, viewVars, is_running, is_busy, show_overlay, current_screenshot,
          status_message, last_action, selVars, typeVars, picker_active, dragVars,
          trajVars, vmVars, main_pc, workers, histVars>>

None == "None"      \* picker_active = None
NoFrame == <<>>     \* an absent image (None)
NoPoint == <<>>     \* drag_start_point = None
NoFile == <<>>      \* a file not written yet

Max(a, b) == IF a >= b THEN a ELSE b
Min(a, b) == IF a <= b THEN a ELSE b

(***************************************************************************)
(* Bounds of the model.                                                    *)
(***************************************************************************)
MaxWorkers == 2      \* worker threads alive at once
MaxIntents == 2      \* intents accepted by the pipeline in one run
MaxTextLen == 2      \* characters in the text-entry buffer

(***************************************************************************)
(* Program constants.                                                      *)
(***************************************************************************)
hud_height    == 40
pan_threshold == 50
pan_speed     == 20
max_retries   == 3

HOTKEY_PRESETS == <<"Ctrl+S", "Ctrl+Shift+S", "Ctrl+C", "Ctrl+V", "Ctrl+X",
                    "Ctrl+Z", "Ctrl+A", "Ctrl+F", "Ctrl+H", "Ctrl+N",
                    "Ctrl+O", "Ctrl+P", "Ctrl+W", "Alt+F4", "Ctrl+Alt+T">>

HOTKEY_MAP(h) ==
    CASE h = "Ctrl+S"       -> <<"ctrl", "s">>
      [] h = "Ctrl+Shift+S" -> <<"ctrl", "shift", "s">>
      [] h = "Ctrl+C"       -> <<"ctrl", "c">>
      [] h = "Ctrl+V"       -> <<"ctrl", "v">>
      [] h = "Ctrl+X"       -> <<"ctrl", "x">>
      [] h = "Ctrl+Z"       -> <<"ctrl", "z">>
      [] h = "Ctrl+A"       -> <<"ctrl", "a">>
      [] h = "Ctrl+F"       -> <<"ctrl", "f">>
      [] h = "Ctrl+H"       -> <<"ctrl", "h">>
      [] h = "Ctrl+N"       -> <<"ctrl", "n">>
      [] h = "Ctrl+O"       -> <<"ctrl", "o">>
      [] h = "Ctrl+P"       -> <<"ctrl", "p">>
      [] h = "Ctrl+W"       -> <<"ctrl", "w">>
      [] h = "Alt+F4"       -> <<"alt", "f4">>
      [] h = "Ctrl+Alt+T"   -> <<"ctrl", "alt", "t">>
      [] OTHER              -> <<>>

SPECIAL_KEYS == <<"enter", "tab", "escape", "backspace", "delete",
                  "up", "down", "left", "right", "space",
                  "home", "end", "pageup", "pagedown">>

\* SLEEP_PRESETS = [0.5, 1, 2, 3, 5, 10], as Python prints each number
SLEEP_PRESETS == <<"0.5", "1", "2", "3", "5", "10">>

(***************************************************************************)
(* Viewport / coordinate engine.                                           *)
(***************************************************************************)
available_height == window_height - hud_height

needs_viewport == vm_width > window_width \/ vm_height > available_height

_vm_to_screen(vm_x, vm_y) ==
    <<vm_x - viewport_x, vm_y - viewport_y + hud_height>>

\* variant of _screen_to_vm that forgets the status strip's height
NoHud_screen_to_vm(screen_x, screen_y) ==
    LET vm_x == screen_x + viewport_x
        vm_y == screen_y + viewport_y
    IN  <<Max(0, Min(vm_x, vm_width - 1)), Max(0, Min(vm_y, vm_height - 1))>>

\* variant of _screen_to_vm that clamps at 0 only
ClampNoUpper_screen_to_vm(screen_x, screen_y) ==
    <<Max(0, screen_x + viewport_x), Max(0, screen_y - hud_height + viewport_y)>>

_screen_to_vm(screen_x, screen_y) ==
    LET vm_x == screen_x + viewport_x
        vm_y == screen_y - hud_height + viewport_y
    IN  <<Max(0, Min(vm_x, vm_width - 1)), Max(0, Min(vm_y, vm_height - 1))>>

\* variant of _is_on_vm that takes the status strip for the VM area
StripIsVm__is_on_vm(screen_pos) == ~show_overlay

_is_on_vm(screen_pos) == screen_pos[2] >= hud_height /\ ~show_overlay

\* variant of PanX whose pan to the right is not clamped
Unclamped_PanX(mx) ==
    IF mx < pan_threshold
    THEN Max(0, viewport_x - pan_speed)
    ELSE IF mx > window_width - pan_threshold
         THEN viewport_x + pan_speed
         ELSE viewport_x

PanX(mx) ==
    IF mx < pan_threshold
    THEN Max(0, viewport_x - pan_speed)
    ELSE IF mx > window_width - pan_threshold
         THEN Min(Max(0, vm_width - window_width), viewport_x + pan_speed)
         ELSE viewport_x

PanY(my) ==
    IF my < hud_height + pan_threshold
    THEN Max(0, viewport_y - pan_speed)
    ELSE IF my > window_height - pan_threshold
         THEN Min(Max(0, vm_height - available_height), viewport_y + pan_speed)
         ELSE viewport_y

_update_viewport(mouse_pos) ==
    IF ~needs_viewport \/ show_overlay
    THEN UNCHANGED viewVars
    ELSE /\ viewport_x' = PanX(mouse_pos[1])
         /\ viewport_y' = PanY(mouse_pos[2])

(***************************************************************************)
(* Intents.  An intent is what an _execute_* method hands to               *)
(* _execute_action: the action tag, the command VMInterface.execute_*      *)
(* sends to the remote channel (execute_fn), the command text to record    *)
(* (pg_command) and the parameter dict (details).  A dict is modelled by   *)
(* its keys with the integer values (nums) and the string values (strs).   *)
(***************************************************************************)
Details(keys, nums, strs) == [keys |-> keys, nums |-> nums, strs |-> strs]

Intent(type, command, pg, details) ==
    [action_type |-> type, command |-> command, pg_command |-> pg, details |-> details]

NoIntent == Intent("", "", "", Details(<<>>, <<>>, <<>>))

\* ", ".join(f"'{k}'" for k in keys)
RECURSIVE JoinQuoted(_)
JoinQuoted(keys) ==
    IF Len(keys) = 0 THEN ""
    ELSE IF Len(keys) = 1 THEN "'" \o keys[1] \o "'"
    ELSE "'" \o keys[1] \o "', " \o JoinQuoted(Tail(keys))

\* ---- VMInterface.execute_*: the command sent to the remote channel ----
execute_click(x, y) ==
    "pyautogui.click(" \o ToString(x) \o ", " \o ToString(y) \o ")"

execute_right_click(x, y) ==
    "pyautogui.rightClick(" \o ToString(x) \o ", " \o ToString(y) \o ")"

\* variant of EscapeChar that leaves the backslash as it is
BackslashKept_EscapeChar(c) ==
    IF c = "'" THEN "\\'"
    ELSE IF c = "\"" THEN "\\\""
    ELSE c

\* text.replace("\\", "\\\\").replace("'", "\\'").replace('"', '\\"'), on a
\* text given as its sequence of characters
EscapeChar(c) ==
    IF c = "\\" THEN "\\\\"
    ELSE IF c = "'" THEN "\\'"
    ELSE IF c = "\"" THEN "\\\""
    ELSE c

RECURSIVE EscapeText(_)
EscapeText(chars) ==
    IF Len(chars) = 0 THEN ""
    ELSE EscapeChar(Head(chars)) \o EscapeText(Tail(chars))

RECURSIVE Concat(_)
Concat(chars) ==
    IF Len(chars) = 0 THEN "" ELSE Head(chars) \o Concat(Tail(chars))

\* the characters of a string
Chars(s) == [i \in 1 .. Len(s) |-> SubSeq(s, i, i)]

execute_typewrite(chars) ==
    "pyautogui.typewrite('" \o EscapeText(chars) \o "', interval=0.05)"

execute_hotkey(keys) == "pyautogui.hotkey(" \o JoinQuoted(keys) \o ")"

execute_press(key) == "pyautogui.press('" \o key \o "')"

execute_scroll(clicks) == "pyautogui.scroll(" \o ToString(clicks) \o ")"

\* variant of execute_drag with the relative offset reversed
DragSwapped_execute_drag(start_x, start_y, end_x, end_y, duration) ==
    "pyautogui.moveTo(" \o ToString(start_x) \o ", " \o ToString(start_y)
        \o "); pyautogui.drag(" \o ToString(start_x - end_x) \o ", "
        \o ToString(start_y - end_y) \o ", duration=" \o duration \o ")"

execute_drag(start_x, start_y, end_x, end_y, duration) ==
    "pyautogui.moveTo(" \o ToString(start_x) \o ", " \o ToString(start_y)
        \o "); pyautogui.drag(" \o ToString(end_x - start_x) \o ", "
        \o ToString(end_y - start_y) \o ", duration=" \o duration \o ")"

\* ---- ViewPortWindow._execute_*: the intent handed to _execute_action ----
_execute_click(vm_x, vm_y) ==
    Intent("click", execute_click(vm_x, vm_y),
           "pg.click(" \o ToString(vm_x) \o ", " \o ToString(vm_y) \o ")",
           Details(<<"x", "y">>, <<vm_x, vm_y>>, <<>>))

RightClickIntent(vm_x, vm_y) ==
    Intent("right_click", execute_right_click(vm_x, vm_y),
           "pg.rightClick(" \o ToString(vm_x) \o ", " \o ToString(vm_y) \o ")",
           Details(<<"x", "y">>, <<vm_x, vm_y>>, <<>>))

_execute_type(chars) ==
    Intent("typewrite", execute_typewrite(chars),
           "pg.typewrite('" \o Concat(chars) \o "')",
           Details(<<"text">>, <<>>, <<Concat(chars)>>))

_execute_hotkey(hotkey) ==
    LET keys == HOTKEY_MAP(hotkey)
    IN  Intent("hotkey", execute_hotkey(keys),
               "pg.hotkey(" \o JoinQuoted(keys) \o ")",
               Details(<<"keys">>, <<>>, keys))

_execute_key(key) ==
    Intent("press", execute_press(key), "pg.press('" \o key \o "')",
           Details(<<"key">>, <<>>, <<key>>))

_execute_scroll(clicks) ==
    Intent("scroll", execute_scroll(clicks),
           "pg.scroll(" \o ToString(clicks) \o ")",
           Details(<<"clicks">>, <<clicks>>, <<>>))

\* variant of _execute_drag whose parameter dict names the end point first
EndFirst__execute_drag(start_x, start_y, end_x, end_y) ==
    Intent("drag", execute_drag(start_x, start_y, end_x, end_y, "0.5"),
           "pg.moveTo(" \o ToString(start_x) \o ", " \o ToString(start_y)
               \o "); pg.drag(" \o ToString(end_x - start_x) \o ", "
               \o ToString(end_y - start_y) \o ", duration=0.5)",
           Details(<<"start_x", "start_y", "end_x", "end_y">>,
                   <<end_x, end_y, start_x, start_y>>, <<>>))

_execute_drag(start_x, start_y, end_x, end_y) ==
    Intent("drag", execute_drag(start_x, start_y, end_x, end_y, "0.5"),
           "pg.moveTo(" \o ToString(start_x) \o ", " \o ToString(start_y)
               \o "); pg.drag(" \o ToString(end_x - start_x) \o ", "
               \o ToString(end_y - start_y) \o ", duration=0.5)",
           Details(<<"start_x", "start_y", "end_x", "end_y">>,
                   <<start_x, start_y, end_x, end_y>>, <<>>))

\* the sleep intent: no remote command; seconds as Python prints it
SleepIntent(seconds) ==
    Intent("sleep", "", "pg.sleep(" \o seconds \o ")",
           Details(<<"seconds">>, <<>>, <<seconds>>))

(***************************************************************************)
(* TrajectoryManager.                                                      *)
(***************************************************************************)
ScreenshotName(k) == "step_" \o ToString(k) \o "_before.png"

\* save_before_screenshot: the file name carries the current step_count; a
\* failed write returns "".
save_before_screenshot(w_ok) ==
    /\ saved_screenshots' =
          IF w_ok THEN saved_screenshots \cup {step_count} ELSE saved_screenshots
    /\ UNCHANGED <<trajectory, step_count, saved_log>>

\* variant of SavedPath that names the file after the next step
NextIndex_SavedPath(w_ok) == IF w_ok THEN ScreenshotName(step_count + 1) ELSE ""

SavedPath(w_ok) == IF w_ok THEN ScreenshotName(step_count) ELSE ""

StepLog(k, action_command, screenshot_path, action_type, action_details) ==
    [step |-> k, screenshot |-> screenshot_path, action |-> action_command,
     action_type |-> action_type, action_details |-> action_details]

\* variant of record_action that does not advance step_count
NoIncrement_record_action(action_command, screenshot_path, action_type, action_details) ==
    /\ trajectory' = Append(trajectory,
          StepLog(step_count, action_command, screenshot_path, action_type,
                  action_details))
    /\ UNCHANGED <<step_count, saved_screenshots, saved_log>>

record_action(action_command, screenshot_path, action_type, action_details) ==
    /\ trajectory' = Append(trajectory,
          StepLog(step_count, action_command, screenshot_path, action_type,
                  action_details))
    /\ step_count' = step_count + 1
    /\ UNCHANGED <<saved_screenshots, saved_log>>

\* the action_details dict as json sees it: its items in insertion order,
\* each value an int or a float ("num", with the text Python prints for it),
\* a str ("str") or a list of str ("list", the keys of a hotkey)
DetailsDict(action_type, action_details) ==
    [i \in DOMAIN action_details.keys |->
        IF action_details.nums # <<>>
        THEN [key |-> action_details.keys[i], kind |-> "num",
              text |-> ToString(action_details.nums[i]), items |-> <<>>]
        ELSE IF action_type = "hotkey"
        THEN [key |-> action_details.keys[i], kind |-> "list", text |-> "",
              items |-> action_details.strs]
        ELSE IF action_type = "sleep"
        THEN [key |-> action_details.keys[i], kind |-> "num",
              text |-> action_details.strs[i], items |-> <<>>]
        ELSE [key |-> action_details.keys[i], kind |-> "str",
              text |-> action_details.strs[i], items |-> <<>>]]

\* variant of JsonString that writes the characters as they are
Unescaped_JsonString(s) == "\"" \o s \o "\""

\* json.dumps of a str: the quotation mark and the backslash are written with
\* a backslash before them (the model's texts hold no control character and
\* no character outside ASCII)
JsonString(s) ==
    LET RECURSIVE Escaped(_)
        Escaped(cs) ==
            IF cs = <<>> THEN ""
            ELSE (IF Head(cs) \in {"\"", "\\"} THEN "\\" ELSE "") \o Head(cs)
                     \o Escaped(Tail(cs))
    IN  "\"" \o Escaped(Chars(s)) \o "\""

\* json.dumps(entry): the keys in insertion order, ", " between items and
\* ": " after a key; "action_details" is there only if the dict was not
\* empty.  "instruction" and "timestamp" are not part of the model's Step.
JsonDumps(entry) ==
    LET RECURSIVE List(_)
        List(strs) ==
            IF strs = <<>> THEN ""
            ELSE JsonString(Head(strs))
                     \o (IF Len(strs) > 1 THEN ", " ELSE "") \o List(Tail(strs))
        Value(v) ==
            IF v.kind = "num" THEN v.text
            ELSE IF v.kind = "str" THEN JsonString(v.text)
            ELSE "[" \o List(v.items) \o "]"
        RECURSIVE Items(_)
        Items(dict) ==
            IF dict = <<>> THEN ""
            ELSE JsonString(Head(dict).key) \o ": " \o Value(Head(dict))
                     \o (IF Len(dict) > 1 THEN ", " ELSE "") \o Items(Tail(dict))
    IN  "{\"step\": " \o ToString(entry.step)
            \o ", \"observation\": {\"screenshot\": " \o JsonString(entry.screenshot)
            \o "}, \"action\": " \o JsonString(entry.action)
            \o ", \"action_type\": " \o JsonString(entry.action_type)
            \o (IF entry.action_details.keys = <<>> THEN ""
                ELSE ", \"action_details\": {"
                         \o Items(DetailsDict(entry.action_type, entry.action_details))
                         \o "}")
            \o "}"

\* save_trajectory: f.write(json.dumps(entry) + "\n") for each entry, in
\* order; the log is the sequence of its lines.  A failed write is logged.
save_trajectory(w_ok) ==
    /\ saved_log' = IF w_ok
                    THEN <<[i \in DOMAIN trajectory |-> JsonDumps(trajectory[i])]>>
                    ELSE saved_log
    /\ UNCHANGED <<trajectory, step_count, saved_screenshots>>

(***************************************************************************)
(* VMInterface: screenshots.  A frame is <<k>>, the VM's screen after the  *)
(* k-th command it received.  Each fetch attempt ends "ok" (a frame),      *)
(* "absent" (no screenshot in the observation) or "raise".                 *)
(***************************************************************************)
FetchOutcomes == {"ok", "absent", "raise"}

VmFrame == <<Len(dispatched)>>

\* variant of get_screenshot without the fallback to the cached frame
NoFallback_get_screenshot(outcome, cache) ==
    IF outcome = "ok" THEN <<VmFrame, VmFrame>> ELSE <<NoFrame, cache>>

\* variant of get_screenshot that does not keep the frame it fetched
NotKept_get_screenshot(outcome, cache) ==
    IF outcome = "ok" THEN <<VmFrame, cache>> ELSE <<cache, cache>>

\* get_screenshot: <<returned image, new _last_screenshot>>
get_screenshot(outcome, cache) ==
    IF outcome = "ok" THEN <<VmFrame, VmFrame>> ELSE <<cache, cache>>

\* for attempt in range(max_retries): <<returned image, new _last_screenshot,
\* calls of get_screenshot made>>
RECURSIVE RetryFrom(_, _, _)
RetryFrom(attempt, outs, cache) ==
    IF attempt > max_retries THEN <<NoFrame, cache, max_retries>>
    ELSE LET r == get_screenshot(outs[attempt], cache)
         IN  IF r[1] # NoFrame THEN <<r[1], r[2], attempt>>
             ELSE RetryFrom(attempt + 1, outs, r[2])

get_screenshot_with_retry(outs, cache) == RetryFrom(1, outs, cache)

(***************************************************************************)
(* VMInterface._execute_command: one command to the remote channel; the    *)
(* channel answers "ok", answers with an error, or raises.                 *)
(***************************************************************************)
RemoteOutcomes == {"ok", "error", "raise"}

\* the same, and an exception whose message is empty (str(e) = "")
AllRemoteOutcomes == RemoteOutcomes \cup {"raise_empty"}

\* variant of ResultSuccess that takes every result for a success
AlwaysSuccess(outcome) == TRUE

ResultSuccess(outcome) == outcome = "ok"

ResultError(outcome) ==
    IF outcome = "error" THEN "command failed"
    ELSE IF outcome = "raise" THEN "connection lost"
    ELSE IF outcome = "raise_empty" THEN ""
    ELSE "Unknown"

\* variant of _execute_command that sends the command a second time when
\* the channel did not answer with success
Resend__execute_command(command, outcome) ==
    dispatched' =
        IF outcome = "ok"
        THEN Append(dispatched, [command |-> command, outcome |-> outcome])
        ELSE dispatched \o <<[command |-> command, outcome |-> outcome],
                             [command |-> command, outcome |-> outcome]>>

\* the channel's log: each command it received, with how it answered
_execute_command(command, outcome) ==
    dispatched' = Append(dispatched, [command |-> command, outcome |-> outcome])

(***************************************************************************)
(* Worker threads.  threading.Thread(target=..., daemon=True).start() adds *)
(* a thread; threads carry no identity, so the live threads form a bag of  *)
(* records: what the thread runs (kind), where it is (pc) and its locals.  *)
(***************************************************************************)
Worker(kind, pc, intent) ==
    [kind |-> kind, pc |-> pc, intent |-> intent, path |-> "", img |-> NoFrame]

InFlight == BagToSet(workers)

NumWorkers == BagCardinality(workers)

StartThread(rec) ==
    /\ NumWorkers < MaxWorkers          \* bound: MaxWorkers live threads
    /\ workers' = workers (+) SetToBag({rec})

(***************************************************************************)
(* The event-loop half of the pipeline: the busy gate and the thread start.*)
(* Each of these sets is_busy, status_message, workers and the history.    *)
(***************************************************************************)
\* variant of _execute_action without the early return under is_busy
Ungated_execute_action(intent) ==
    /\ n_accepted < MaxIntents
    /\ is_busy' = TRUE
    /\ status_message' = "Executing..."
    /\ StartThread(Worker("action", "save_before", intent))
    /\ n_accepted' = n_accepted + 1
    /\ UNCHANGED dropped_flip

_execute_action(intent) ==
    IF is_busy
    THEN /\ dropped_flip' = ~dropped_flip
         /\ UNCHANGED <<is_busy, status_message, workers, n_accepted>>
    ELSE /\ n_accepted < MaxIntents      \* bound
         /\ is_busy' = TRUE
         /\ status_message' = "Executing..."
         /\ StartThread(Worker("action", "save_before", intent))
         /\ n_accepted' = n_accepted + 1
         /\ UNCHANGED dropped_flip

_execute_sleep(seconds) ==
    IF is_busy
    THEN /\ dropped_flip' = ~dropped_flip
         /\ UNCHANGED <<is_busy, status_message, workers, n_accepted>>
    ELSE /\ n_accepted < MaxIntents      \* bound
         /\ is_busy' = TRUE
         /\ status_message' = "Waiting " \o seconds \o "s..."
         /\ StartThread(Worker("sleep", "save_before", SleepIntent(seconds)))
         /\ n_accepted' = n_accepted + 1
         /\ UNCHANGED dropped_flip

_refresh_screenshot ==
    IF is_busy
    THEN UNCHANGED <<is_busy, status_message, workers, histVars>>
    ELSE /\ is_busy' = TRUE
         /\ status_message' = "Refreshing..."
         /\ StartThread(Worker("refresh", "fetch", NoIntent))
         /\ UNCHANGED histVars

\* _on_finish has no busy gate; it also closes the overlay
_on_finish ==
    /\ is_busy' = TRUE
    /\ status_message' = "Finishing..."
    /\ show_overlay' = FALSE
    /\ StartThread(Worker("finish", "save_trajectory", NoIntent))
    /\ UNCHANGED histVars

pipeVars == <<is_busy, status_message, workers, histVars>>

(***************************************************************************)
(* Worker bodies.  Every action below is one step of a live thread w.  The *)
(* environment e gives the outcomes the world may produce: e.remote for a  *)
(* command sent to the channel, e.fetch for a screenshot fetch, e.write    *)
(* for a file write, e.convert for the conversion of a frame to a surface, *)
(* e.scores for the evaluation ("raise": a call of finish() raises).       *)
(***************************************************************************)
Become(w, w2) == workers' = (workers (-) SetToBag({w})) (+) SetToBag({w2})

SetPc(w, pc) == Become(w, [w EXCEPT !.pc = pc])

EndThread(w) == workers' = workers (-) SetToBag({w})

\* run(): screenshot_path = ""; if current_screenshot: save_before_screenshot
SaveBefore(w, e) ==
    /\ w.kind \in {"action", "sleep"}
    /\ w.pc = "save_before"
    /\ IF current_screenshot # NoFrame
       THEN \E w_ok \in e.write :
               /\ save_before_screenshot(w_ok)
               /\ Become(w, [w EXCEPT !.path = SavedPath(w_ok), !.pc = "execute"])
       ELSE /\ UNCHANGED trajVars
            /\ SetPc(w, "execute")
    /\ UNCHANGED <<winVars, viewVars, is_running, is_busy, current_screenshot,
                   status_message, last_action, uiVars, vmVars, main_pc, histVars>>

\* variant of Execute without the finally block: a failed command ends the
\* thread where it stands
NoFinally_Execute(w, e) ==
    /\ w.kind = "action"
    /\ w.pc = "execute"
    /\ \E outcome \in e.remote :
          /\ _execute_command(w.intent.command, outcome)
          /\ IF ResultSuccess(outcome)
             THEN /\ SetPc(w, "record")
                  /\ UNCHANGED status_message
             ELSE /\ EndThread(w)
                  /\ status_message' = "Error: " \o ResultError(outcome)
    /\ UNCHANGED <<winVars, viewVars, is_running, is_busy, current_screenshot,
                   last_action, uiVars, trajVars, last_screenshot, main_pc, histVars>>

\* variant of Execute that clears is_busy as soon as the command succeeded
EarlyClear_Execute(w, e) ==
    /\ w.kind = "action"
    /\ w.pc = "execute"
    /\ \E outcome \in e.remote :
          /\ _execute_command(w.intent.command, outcome)
          /\ IF ResultSuccess(outcome)
             THEN /\ SetPc(w, "record")
                  /\ is_busy' = FALSE
                  /\ UNCHANGED status_message
             ELSE /\ SetPc(w, "finally")
                  /\ UNCHANGED is_busy
                  /\ status_message' = "Error: " \o ResultError(outcome)
    /\ UNCHANGED <<winVars, viewVars, is_running, current_screenshot,
                   last_action, uiVars, trajVars, last_screenshot, main_pc, histVars>>

\* action run(): result = execute_fn(); the failure branch sets the status
Execute(w, e) ==
    /\ w.kind = "action"
    /\ w.pc = "execute"
    /\ \E outcome \in e.remote :
          /\ _execute_command(w.intent.command, outcome)
          /\ IF ResultSuccess(outcome)
             THEN /\ SetPc(w, "record")
                  /\ UNCHANGED status_message
             ELSE /\ SetPc(w, "finally")
                  /\ status_message' = "Error: " \o ResultError(outcome)
    /\ UNCHANGED <<winVars, viewVars, is_running, is_busy, current_screenshot,
                   last_action, uiVars, trajVars, last_screenshot, main_pc, histVars>>

\* variant of the sleep run() that goes from the delay straight to the refresh
SkipRecord_Sleep(w) ==
    /\ w.kind = "sleep"
    /\ w.pc = "execute"
    /\ SetPc(w, "fetch")
    /\ UNCHANGED <<winVars, viewVars, is_running, is_busy, current_screenshot,
                   status_message, last_action, uiVars, trajVars, vmVars, main_pc,
                   histVars>>

\* sleep run(): time.sleep(seconds)
Sleep(w) ==
    /\ w.kind = "sleep"
    /\ w.pc = "execute"
    /\ SetPc(w, "record")
    /\ UNCHANGED <<winVars, viewVars, is_running, is_busy, current_screenshot,
                   status_message, last_action, uiVars, trajVars, vmVars, main_pc,
                   histVars>>

\* wait_for_vm(0.5) (action only); record_action(...); last_action = pg_command
Record(w) ==
    /\ w.kind \in {"action", "sleep"}
    /\ w.pc = "record"
    /\ record_action(w.intent.pg_command, w.path, w.intent.action_type,
                     w.intent.details)
    /\ last_action' = w.intent.pg_command
    /\ SetPc(w, "fetch")
    /\ UNCHANGED <<winVars, viewVars, is_running, is_busy, current_screenshot,
                   status_message, uiVars, vmVars, main_pc, histVars>>

\* img = self.vm.get_screenshot_with_retry(), in every kind of worker but finish
Fetch(w, e) ==
    /\ w.kind \in {"action", "sleep", "refresh"}
    /\ w.pc = "fetch"
    /\ \E outs \in [1..max_retries -> e.fetch] :
          LET r == get_screenshot_with_retry(outs, last_screenshot)
          IN  /\ Become(w, [w EXCEPT !.img = r[1], !.pc = "display"])
              /\ last_screenshot' = r[2]
    /\ UNCHANGED <<winVars, viewVars, is_running, is_busy, current_screenshot,
                   status_message, last_action, uiVars, trajVars, dispatched,
                   main_pc, histVars>>

\* if new_img: _display_screenshot(new_img); status_message = ""
\* (refresh: else status_message = "Failed to get screenshot").  The
\* conversion in _display_screenshot may raise before current_screenshot is
\* assigned: run() catches it (except, then finally); refresh() has no
\* handler, so its thread ends there.
Display(w, e) ==
    /\ w.kind \in {"action", "sleep", "refresh"}
    /\ w.pc = "display"
    /\ IF w.img = NoFrame
       THEN /\ status_message' =
                  IF w.kind = "refresh" THEN "Failed to get screenshot" ELSE ""
            /\ Become(w, [w EXCEPT !.pc = "finally"])
            /\ UNCHANGED current_screenshot
       ELSE \E converted \in e.convert :
               IF converted
               THEN /\ current_screenshot' = w.img
                    /\ status_message' = ""
                    /\ Become(w, [w EXCEPT !.img = NoFrame, !.pc = "finally"])
               ELSE /\ UNCHANGED current_screenshot
                    /\ IF w.kind = "refresh"
                       THEN /\ EndThread(w)
                            /\ UNCHANGED status_message
                       ELSE /\ status_message' = "Error: conversion failed"
                            /\ Become(w, [w EXCEPT !.img = NoFrame, !.pc = "finally"])
    /\ UNCHANGED <<winVars, viewVars, is_running, is_busy, last_action, uiVars,
                   trajVars, vmVars, main_pc, histVars>>

\* finally: self.is_busy = False (refresh: the last statement of the thread)
ClearBusy(w) ==
    /\ w.kind \in {"action", "sleep", "refresh"}
    /\ w.pc = "finally"
    /\ is_busy' = FALSE
    /\ IF w.kind = "refresh" THEN EndThread(w) ELSE SetPc(w, "close_overlay")
    /\ UNCHANGED <<winVars, viewVars, is_running, current_screenshot,
                   status_message, last_action, uiVars, trajVars, vmVars, main_pc,
                   histVars>>

\* finally: self.show_overlay = False  (auto-close overlay after action)
CloseOverlay(w) ==
    /\ w.kind \in {"action", "sleep"}
    /\ w.pc = "close_overlay"
    /\ show_overlay' = FALSE
    /\ EndThread(w)
    /\ UNCHANGED <<winVars, viewVars, is_running, is_busy, current_screenshot,
                   status_message, last_action, selVars, typeVars, picker_active,
                   dragVars, trajVars, vmVars, main_pc, histVars>>

\* the calls of finish() between save_trajectory and the status message
FinishCalls ==
    <<"run_evaluation", "save_evaluation_score", "generate_colab_notebook",
      "stop_recording", "save_log">>

\* finish(): self.trajectory.save_trajectory()
FinishSave(w, e) ==
    /\ w.kind = "finish"
    /\ w.pc = "save_trajectory"
    /\ \E w_ok \in e.write : save_trajectory(w_ok)
    /\ SetPc(w, FinishCalls[1])
    /\ UNCHANGED <<winVars, viewVars, is_running, is_busy, current_screenshot,
                   status_message, last_action, uiVars, vmVars, main_pc, histVars>>

\* run_evaluation, save_evaluation_score, generate_colab_notebook,
\* stop_recording, save_log; status_message = f"Done! Score: {score}".
\* The calls assign no variable of the window, the recorder's trajectory or
\* the channel: where none of them can raise they are one step, and where a
\* call can raise each call is a step of its own, which either returns or
\* goes to  except: status_message = f"Error: {str(e)}"; is_busy = False
FinishFinalize(w, e) ==
    /\ w.kind = "finish"
    /\ w.pc \notin {"save_trajectory", "exit"}
    /\ \E score \in e.scores :
          IF score = "raise"
          THEN /\ status_message' = "Error: " \o w.pc
               /\ is_busy' = FALSE
               /\ EndThread(w)
          ELSE /\ IF "raise" \notin e.scores \/ w.pc = FinishCalls[Len(FinishCalls)]
                  THEN /\ status_message' = "Done! Score: " \o score
                       /\ SetPc(w, "exit")
                  ELSE /\ UNCHANGED status_message
                       /\ \E k \in DOMAIN FinishCalls :
                             w.pc = FinishCalls[k] /\ SetPc(w, FinishCalls[k + 1])
               /\ UNCHANGED is_busy
    /\ UNCHANGED <<winVars, viewVars, is_running, current_screenshot,
                   last_action, uiVars, trajVars, vmVars, main_pc, histVars>>

\* variant of FinishExit that ends the thread and leaves is_running as it is
NoStop_FinishExit(w) ==
    /\ w.kind = "finish"
    /\ w.pc = "exit"
    /\ EndThread(w)
    /\ UNCHANGED <<winVars, viewVars, is_running, is_busy, current_screenshot,
                   status_message, last_action, uiVars, trajVars, vmVars, main_pc,
                   histVars>>

\* time.sleep(2); self.is_running = False
FinishExit(w) ==
    /\ w.kind = "finish"
    /\ w.pc = "exit"
    /\ is_running' = FALSE
    /\ EndThread(w)
    /\ UNCHANGED <<winVars, viewVars, is_busy, current_screenshot, status_message,
                   last_action, uiVars, trajVars, vmVars, main_pc, histVars>>

WorkerStep(w, e) ==
    \/ SaveBefore(w, e)
    \/ Execute(w, e)
    \/ Sleep(w)
    \/ Record(w)
    \/ Fetch(w, e)
    \/ Display(w, e)
    \/ ClearBusy(w)
    \/ CloseOverlay(w)
    \/ FinishSave(w, e)
    \/ FinishFinalize(w, e)
    \/ FinishExit(w)

Env(remote, fetch, write, convert, scores) ==
    [remote |-> remote, fetch |-> fetch, write |-> write, convert |-> convert,
     scores |-> scores]

(***************************************************************************)
(* Overlay geometry (_handle_overlay_click, _handle_picker_click).         *)
(***************************************************************************)
panel_w == 520
panel_h == 580
section_padding == 25
row_height == 50
header_h == 70
panel_x == (window_width - panel_w) \div 2
panel_y == (window_height - panel_h) \div 2
card_w == panel_w - section_padding * 2
y_base == panel_y + header_h + 45

y_type    == y_base
y_hotkey  == y_type + row_height + 12
y_key     == y_hotkey + row_height + 12
y_sleep   == y_key + row_height + 12
y_buttons == y_sleep + row_height + 20
btn_w == 140
btn_h == 38
btn_gap == 15
btn_start_x == panel_x + section_padding
y_drag    == y_buttons + btn_h + 12
y_finish  == y_drag + btn_h + 20

InRect(pos, x, y, w, h) ==
    x <= pos[1] /\ pos[1] <= x + w /\ y <= pos[2] /\ pos[2] <= y + h

in_panel(pos) == InRect(pos, panel_x, panel_y, panel_w, panel_h)

in_section(pos, section_y) ==
    /\ panel_x + section_padding <= pos[1]
    /\ pos[1] <= panel_x + panel_w - section_padding
    /\ section_y <= pos[2] /\ pos[2] <= section_y + row_height

on_go_button(pos, section_y) ==
    InRect(pos, panel_x + section_padding + card_w - 65, section_y + 10,
           55, row_height - 20)

on_scroll_up(pos)   == InRect(pos, btn_start_x, y_buttons, btn_w, btn_h)
on_scroll_down(pos) == InRect(pos, btn_start_x + btn_w + btn_gap, y_buttons, btn_w, btn_h)
on_refresh(pos)     == InRect(pos, btn_start_x + (btn_w + btn_gap) * 2, y_buttons, btn_w, btn_h)
on_drag_button(pos) == InRect(pos, btn_start_x, y_drag, btn_w * 2 + btn_gap, btn_h)
on_finish_button(pos) ==
    InRect(pos, panel_x + section_padding, y_finish, panel_w - section_padding * 2, 45)

\* picker popup: the items of the open picker and its grid
PickerItems(kind) ==
    IF kind = "hotkey" THEN Len(HOTKEY_PRESETS)
    ELSE IF kind = "key" THEN Len(SPECIAL_KEYS)
    ELSE Len(SLEEP_PRESETS)

PickerCols(kind) == IF kind = "key" THEN 4 ELSE 3

item_w == 110
item_h == 36
item_gap == 8
PickerRows(kind) == (PickerItems(kind) + PickerCols(kind) - 1) \div PickerCols(kind)
popup_w(kind) == PickerCols(kind) * item_w + (PickerCols(kind) - 1) * item_gap + 40
popup_h(kind) == PickerRows(kind) * item_h + (PickerRows(kind) - 1) * item_gap + 80
popup_x(kind) == (window_width - popup_w(kind)) \div 2
popup_y(kind) == (window_height - popup_h(kind)) \div 2

\* item i (0-based, as in the code) of the grid
item_x(kind, i) == popup_x(kind) + 20 + (i % PickerCols(kind)) * (item_w + item_gap)
item_y(kind, i) == popup_y(kind) + 60 + (i \div PickerCols(kind)) * (item_h + item_gap)

on_item(pos, kind, i) == InRect(pos, item_x(kind, i), item_y(kind, i), item_w, item_h)

\* the first item the loop finds under the click, or -1
HitItem(pos, kind) ==
    LET hits == {i \in 0..(PickerItems(kind) - 1) : on_item(pos, kind, i)}
    IN  IF hits = {} THEN -1 ELSE CHOOSE i \in hits : \A j \in hits : i <= j

_handle_picker_click(pos) ==
    LET kind == picker_active
    IN  IF ~InRect(pos, popup_x(kind), popup_y(kind), popup_w(kind), popup_h(kind))
        THEN picker_active' = None /\ UNCHANGED selVars
        ELSE LET i == HitItem(pos, kind)
             IN  IF i = -1
                 THEN UNCHANGED <<picker_active, selVars>>
                 ELSE /\ picker_active' = None
                      /\ overlay_selected_hotkey' =
                            IF kind = "hotkey" THEN i ELSE overlay_selected_hotkey
                      /\ overlay_selected_key' =
                            IF kind = "key" THEN i ELSE overlay_selected_key
                      /\ overlay_selected_sleep' =
                            IF kind = "sleep" THEN i ELSE overlay_selected_sleep

(***************************************************************************)
(* _handle_overlay_click.  The sections and buttons are pairwise disjoint  *)
(* rectangles, so the chain of independent ifs of the code runs at most    *)
(* one of its bodies; overlay_type_active is reset before the chain.       *)
(***************************************************************************)
NoPipe == UNCHANGED pipeVars

_handle_overlay_click(pos) ==
    IF picker_active # None
    THEN /\ _handle_picker_click(pos)
         /\ UNCHANGED <<show_overlay, typeVars, dragVars>> /\ NoPipe
    ELSE IF ~in_panel(pos)
    THEN /\ show_overlay' = FALSE
         /\ UNCHANGED <<selVars, typeVars, picker_active, dragVars>> /\ NoPipe
    ELSE IF in_section(pos, y_type)
    THEN IF on_go_button(pos, y_type)
         THEN /\ overlay_type_active' = FALSE
              /\ IF overlay_type_text # <<>>
                 THEN /\ _execute_action(_execute_type(overlay_type_text))
                      /\ overlay_type_text' = <<>>
                 ELSE /\ NoPipe
                      /\ UNCHANGED overlay_type_text
              /\ UNCHANGED <<show_overlay, selVars, picker_active, dragVars>>
         ELSE /\ overlay_type_active' = TRUE
              /\ UNCHANGED <<show_overlay, selVars, overlay_type_text,
                             picker_active, dragVars>> /\ NoPipe
    ELSE IF in_section(pos, y_hotkey)
    THEN /\ overlay_type_active' = FALSE
         /\ IF on_go_button(pos, y_hotkey)
            THEN /\ _execute_action(
                        _execute_hotkey(HOTKEY_PRESETS[overlay_selected_hotkey + 1]))
                 /\ UNCHANGED picker_active
            ELSE /\ picker_active' = "hotkey"
                 /\ NoPipe
         /\ UNCHANGED <<show_overlay, selVars, overlay_type_text, dragVars>>
    ELSE IF in_section(pos, y_key)
    THEN /\ overlay_type_active' = FALSE
         /\ IF on_go_button(pos, y_key)
            THEN /\ _execute_action(_execute_key(SPECIAL_KEYS[overlay_selected_key + 1]))
                 /\ UNCHANGED picker_active
            ELSE /\ picker_active' = "key"
                 /\ NoPipe
         /\ UNCHANGED <<show_overlay, selVars, overlay_type_text, dragVars>>
    ELSE IF in_section(pos, y_sleep)
    THEN /\ overlay_type_active' = FALSE
         /\ IF on_go_button(pos, y_sleep)
            THEN /\ _execute_sleep(SLEEP_PRESETS[overlay_selected_sleep + 1])
                 /\ UNCHANGED picker_active
            ELSE /\ picker_active' = "sleep"
                 /\ NoPipe
         /\ UNCHANGED <<show_overlay, selVars, overlay_type_text, dragVars>>
    ELSE IF on_scroll_up(pos)
    THEN /\ overlay_type_active' = FALSE
         /\ _execute_action(_execute_scroll(3))
         /\ UNCHANGED <<show_overlay, selVars, overlay_type_text, picker_active, dragVars>>
    ELSE IF on_scroll_down(pos)
    THEN /\ overlay_type_active' = FALSE
         /\ _execute_action(_execute_scroll(-3))
         /\ UNCHANGED <<show_overlay, selVars, overlay_type_text, picker_active, dragVars>>
    ELSE IF on_refresh(pos)
    THEN /\ overlay_type_active' = FALSE
         /\ _refresh_screenshot
         /\ UNCHANGED <<show_overlay, selVars, overlay_type_text, picker_active, dragVars>>
    ELSE IF on_drag_button(pos)
    THEN /\ overlay_type_active' = FALSE
         /\ IF drag_mode_active
            THEN /\ drag_mode_active' = FALSE
                 /\ drag_start_point' = NoPoint
                 /\ status_message' = "Drag cancelled"
                 /\ UNCHANGED show_overlay
            ELSE /\ drag_mode_active' = TRUE
                 /\ drag_start_point' = NoPoint
                 /\ status_message' = "Click start point on VM"
                 /\ show_overlay' = FALSE
         /\ UNCHANGED <<is_busy, workers, histVars, selVars, overlay_type_text,
                        picker_active>>
    ELSE IF on_finish_button(pos)
    THEN /\ overlay_type_active' = FALSE
         /\ _on_finish
         /\ UNCHANGED <<selVars, overlay_type_text, picker_active, dragVars>>
    ELSE /\ overlay_type_active' = FALSE
         /\ UNCHANGED <<show_overlay, selVars, overlay_type_text, picker_active,
                        dragVars>> /\ NoPipe

(***************************************************************************)
(* The event loop of start(): one action per event.                        *)
(***************************************************************************)
restVars == <<winVars, current_screenshot, last_action, trajVars, vmVars>>

\* start(): is_running = True; _refresh_screenshot(); start_recording()
Start ==
    /\ main_pc = "init"
    /\ is_running' = TRUE
    /\ _refresh_screenshot
    /\ main_pc' = "loop"
    /\ UNCHANGED <<restVars, viewVars, uiVars>>

\* pygame.QUIT
Quit ==
    /\ main_pc = "loop"
    /\ is_running' = FALSE
    /\ UNCHANGED <<restVars, viewVars, uiVars, pipeVars, main_pc>>

\* K_ESCAPE: picker -> typing -> overlay -> drag mode -> exit
\* variant of EscapeKey that cancels every mode at once
EscNoPrecedence ==
    /\ picker_active' = None
    /\ overlay_type_active' = FALSE
    /\ show_overlay' = FALSE
    /\ drag_mode_active' = FALSE
    /\ drag_start_point' = NoPoint
    /\ UNCHANGED <<is_running, status_message>>

EscapeKey ==
    IF picker_active # None
    THEN /\ picker_active' = None
         /\ UNCHANGED <<overlay_type_active, show_overlay, dragVars, status_message,
                        is_running>>
    ELSE IF show_overlay /\ overlay_type_active
    THEN /\ overlay_type_active' = FALSE
         /\ UNCHANGED <<picker_active, show_overlay, dragVars, status_message,
                        is_running>>
    ELSE IF show_overlay
    THEN /\ show_overlay' = FALSE
         /\ picker_active' = None
         /\ UNCHANGED <<overlay_type_active, dragVars, status_message, is_running>>
    ELSE IF drag_mode_active
    THEN /\ drag_mode_active' = FALSE
         /\ drag_start_point' = NoPoint
         /\ status_message' = "Drag cancelled"
         /\ UNCHANGED <<picker_active, overlay_type_active, show_overlay, is_running>>
    ELSE /\ is_running' = FALSE
         /\ UNCHANGED <<picker_active, overlay_type_active, show_overlay, dragVars,
                        status_message>>

\* pygame.KEYDOWN; key is "F12", "ESC", "BACKSPACE", "RETURN", "SPACE" or a
\* printable character; the unicode of SPACE is " "
\* variant of ToggleKey that leaves text entry as it is
TextEntryKept_ToggleKey ==
    IF picker_active = None
    THEN /\ show_overlay' = ~show_overlay
         /\ UNCHANGED <<overlay_type_active, picker_active>>
    ELSE UNCHANGED <<show_overlay, overlay_type_active, picker_active>>

\* variant of ToggleKey that does not look at the picker
PickerIgnored_ToggleKey ==
    /\ show_overlay' = ~show_overlay
    /\ overlay_type_active' = FALSE
    /\ picker_active' = None

\* K_SPACE outside text entry: if not self.picker_active: toggle the overlay
ToggleKey ==
    IF picker_active = None
    THEN /\ show_overlay' = ~show_overlay
         /\ overlay_type_active' = FALSE
         /\ picker_active' = None
    ELSE UNCHANGED <<show_overlay, overlay_type_active, picker_active>>

KeyUnicode(key) ==
    IF key = "SPACE" THEN " "
    ELSE IF key \in {"F12", "ESC", "BACKSPACE", "RETURN"} THEN "" ELSE key

\* variant of KeyDown that looks at K_SPACE before it looks at text entry
ToggleFirst_KeyDown(key) ==
    /\ main_pc = "loop"
    /\ IF key = "F12"
       THEN /\ _on_finish
            /\ UNCHANGED <<is_running, selVars, typeVars, picker_active, dragVars>>
       ELSE IF key = "ESC"
       THEN /\ EscapeKey
            /\ UNCHANGED <<is_busy, workers, histVars, selVars, overlay_type_text>>
       ELSE IF key = "SPACE"
       THEN /\ ToggleKey
            /\ NoPipe
            /\ UNCHANGED <<is_running, selVars, overlay_type_text, dragVars>>
       ELSE IF show_overlay /\ overlay_type_active
       THEN /\ IF key = "BACKSPACE"
               THEN /\ overlay_type_text' =
                          IF overlay_type_text = <<>> THEN <<>>
                          ELSE SubSeq(overlay_type_text, 1, Len(overlay_type_text) - 1)
                    /\ NoPipe
               ELSE IF key = "RETURN"
               THEN IF overlay_type_text # <<>>
                    THEN /\ _execute_action(_execute_type(overlay_type_text))
                         /\ overlay_type_text' = <<>>
                    ELSE NoPipe /\ UNCHANGED overlay_type_text
               ELSE IF KeyUnicode(key) # ""
               THEN /\ Len(overlay_type_text) < MaxTextLen      \* bound
                    /\ overlay_type_text' = Append(overlay_type_text, KeyUnicode(key))
                    /\ NoPipe
               ELSE NoPipe /\ UNCHANGED overlay_type_text
            /\ UNCHANGED <<is_running, show_overlay, selVars, overlay_type_active,
                           picker_active, dragVars>>
       ELSE /\ NoPipe
            /\ UNCHANGED <<is_running, uiVars>>
    /\ UNCHANGED <<restVars, viewVars, main_pc>>

KeyDown(key) ==
    /\ main_pc = "loop"
    /\ IF key = "F12"
       THEN /\ _on_finish
            /\ UNCHANGED <<is_running, selVars, typeVars, picker_active, dragVars>>
       ELSE IF key = "ESC"
       THEN /\ EscapeKey
            /\ UNCHANGED <<is_busy, workers, histVars, selVars, overlay_type_text>>
       ELSE IF show_overlay /\ overlay_type_active
       THEN /\ IF key = "BACKSPACE"
               THEN /\ overlay_type_text' =
                          IF overlay_type_text = <<>> THEN <<>>
                          ELSE SubSeq(overlay_type_text, 1, Len(overlay_type_text) - 1)
                    /\ NoPipe
               ELSE IF key = "RETURN"
               THEN IF overlay_type_text # <<>>
                    THEN /\ _execute_action(_execute_type(overlay_type_text))
                         /\ overlay_type_text' = <<>>
                    ELSE NoPipe /\ UNCHANGED overlay_type_text
               ELSE IF KeyUnicode(key) # ""
               THEN /\ Len(overlay_type_text) < MaxTextLen      \* bound
                    /\ overlay_type_text' = Append(overlay_type_text, KeyUnicode(key))
                    /\ NoPipe
               ELSE NoPipe /\ UNCHANGED overlay_type_text
            /\ UNCHANGED <<is_running, show_overlay, selVars, overlay_type_active,
                           picker_active, dragVars>>
       ELSE IF key = "SPACE"
       THEN /\ ToggleKey
            /\ NoPipe
            /\ UNCHANGED <<is_running, selVars, overlay_type_text, dragVars>>
       ELSE /\ NoPipe
            /\ UNCHANGED <<is_running, uiVars>>
    /\ UNCHANGED <<restVars, viewVars, main_pc>>

\* pygame.MOUSEBUTTONDOWN, button 1
LeftClick(pos) ==
    /\ main_pc = "loop"
    /\ IF show_overlay
       THEN _handle_overlay_click(pos)
       ELSE IF _is_on_vm(pos) /\ ~is_busy
       THEN LET vm == _screen_to_vm(pos[1], pos[2])
            IN  IF drag_mode_active
                THEN IF drag_start_point = NoPoint
                     THEN /\ drag_start_point' = vm
                          /\ status_message' =
                                "Start: (" \o ToString(vm[1]) \o ", " \o ToString(vm[2])
                                    \o ") - Now click end point"
                          /\ UNCHANGED <<is_busy, workers, histVars, show_overlay,
                                         selVars, typeVars, picker_active,
                                         drag_mode_active>>
                     ELSE /\ _execute_action(_execute_drag(drag_start_point[1],
                                 drag_start_point[2], vm[1], vm[2]))
                          /\ drag_mode_active' = FALSE
                          /\ drag_start_point' = NoPoint
                          /\ UNCHANGED <<show_overlay, selVars, typeVars, picker_active>>
                ELSE /\ _execute_action(_execute_click(vm[1], vm[2]))
                     /\ UNCHANGED uiVars
       ELSE NoPipe /\ UNCHANGED uiVars
    /\ UNCHANGED <<restVars, viewVars, is_running, main_pc>>

\* variant of RightClick whose cancellation keeps the start point
StartKept_RightClick(pos) ==
    /\ main_pc = "loop"
    /\ IF _is_on_vm(pos) /\ ~is_busy /\ ~show_overlay
       THEN IF drag_mode_active
            THEN /\ drag_mode_active' = FALSE
                 /\ status_message' = "Drag cancelled"
                 /\ UNCHANGED <<is_busy, workers, histVars, show_overlay, selVars,
                                typeVars, picker_active, drag_start_point>>
            ELSE LET vm == _screen_to_vm(pos[1], pos[2])
                 IN  /\ _execute_action(RightClickIntent(vm[1], vm[2]))
                     /\ UNCHANGED uiVars
       ELSE NoPipe /\ UNCHANGED uiVars
    /\ UNCHANGED <<restVars, viewVars, is_running, main_pc>>

\* pygame.MOUSEBUTTONDOWN, button 3
RightClick(pos) ==
    /\ main_pc = "loop"
    /\ IF _is_on_vm(pos) /\ ~is_busy /\ ~show_overlay
       THEN IF drag_mode_active
            THEN /\ drag_mode_active' = FALSE
                 /\ drag_start_point' = NoPoint
                 /\ status_message' = "Drag cancelled"
                 /\ UNCHANGED <<is_busy, workers, histVars, show_overlay, selVars,
                                typeVars, picker_active>>
            ELSE LET vm == _screen_to_vm(pos[1], pos[2])
                 IN  /\ _execute_action(RightClickIntent(vm[1], vm[2]))
                     /\ UNCHANGED uiVars
       ELSE NoPipe /\ UNCHANGED uiVars
    /\ UNCHANGED <<restVars, viewVars, is_running, main_pc>>

\* variant of Tick that pans whether or not the overlay is shown
PanUnderOverlay_Tick(mouse_pos) ==
    /\ main_pc = "loop"
    /\ IF needs_viewport
       THEN /\ viewport_x' = PanX(mouse_pos[1])
            /\ viewport_y' = PanY(mouse_pos[2])
       ELSE UNCHANGED viewVars
    /\ UNCHANGED <<restVars, is_running, uiVars, pipeVars, main_pc>>

\* once per frame: if not self.show_overlay: self._update_viewport(mouse_pos)
Tick(mouse_pos) ==
    /\ main_pc = "loop"
    /\ IF ~show_overlay THEN _update_viewport(mouse_pos) ELSE UNCHANGED viewVars
    /\ UNCHANGED <<restVars, is_running, uiVars, pipeVars, main_pc>>

\* while self.is_running: ... ; pygame.quit()
LoopExit ==
    /\ main_pc = "loop"
    /\ ~is_running
    /\ main_pc' = "exited"
    /\ UNCHANGED <<restVars, viewVars, is_running, uiVars, pipeVars>>

(***************************************************************************)
(* Inputs: the points the operator clicks and the keys pressed.            *)
(***************************************************************************)
PtCentre(x, y, w, h) == <<x + w \div 2, y + h \div 2>>

PtOutside     == <<10, hud_height + 10>>
PtPanelBlank  == <<panel_x + 5, panel_y + 5>>
PtTypeField   == <<panel_x + section_padding + 50, y_type + 25>>
PtTypeGo      == PtCentre(panel_x + section_padding + card_w - 65, y_type + 10, 55, row_height - 20)
PtHotkeyField == <<panel_x + section_padding + 50, y_hotkey + 25>>
PtHotkeyGo    == PtCentre(panel_x + section_padding + card_w - 65, y_hotkey + 10, 55, row_height - 20)
PtKeyField    == <<panel_x + section_padding + 50, y_key + 25>>
PtKeyGo       == PtCentre(panel_x + section_padding + card_w - 65, y_key + 10, 55, row_height - 20)
PtSleepField  == <<panel_x + section_padding + 50, y_sleep + 25>>
PtSleepGo     == PtCentre(panel_x + section_padding + card_w - 65, y_sleep + 10, 55, row_height - 20)
PtScrollUp    == PtCentre(btn_start_x, y_buttons, btn_w, btn_h)
PtScrollDown  == PtCentre(btn_start_x + btn_w + btn_gap, y_buttons, btn_w, btn_h)
PtRefresh     == PtCentre(btn_start_x + (btn_w + btn_gap) * 2, y_buttons, btn_w, btn_h)
PtDrag        == PtCentre(btn_start_x, y_drag, btn_w * 2 + btn_gap, btn_h)
PtFinish      == PtCentre(panel_x + section_padding, y_finish, panel_w - section_padding * 2, 45)
PtItem(kind, i) == PtCentre(item_x(kind, i), item_y(kind, i), item_w, item_h)
PtPopupBlank(kind) == <<popup_x(kind) + 2, popup_y(kind) + 2>>

PickerPoints ==
    IF picker_active = None THEN {}
    ELSE {PtItem(picker_active, 1), PtPopupBlank(picker_active), PtOutside}

OverlayPoints ==
    {PtOutside, PtPanelBlank, PtTypeField, PtTypeGo, PtHotkeyField, PtHotkeyGo,
     PtKeyField, PtKeyGo, PtSleepField, PtSleepGo, PtScrollUp, PtScrollDown,
     PtRefresh, PtDrag, PtFinish}

\* on the live view: the status strip, and two points of the VM area
PtHud == <<window_width \div 2, hud_height \div 2>>
PtA   == <<window_width \div 2, window_height \div 2>>
PtB   == <<window_width \div 4, window_height - 100>>
ViewPoints == {PtHud, PtA, PtB}

\* the points offered on the surface that is shown
ClickPoints(view_pts, overlay_pts) ==
    IF ~show_overlay THEN view_pts
    ELSE IF picker_active # None THEN PickerPoints ELSE overlay_pts

(***************************************************************************)
(* The recording session: a 1920x1080 VM on a 1920x1080 screen.            *)
(***************************************************************************)
InitSession ==
    /\ viewport_x = 0 /\ viewport_y = 0
    /\ is_running = FALSE /\ is_busy = FALSE /\ show_overlay = FALSE
    /\ current_screenshot = NoFrame
    /\ status_message = "" /\ last_action = ""
    /\ overlay_selected_hotkey = 0 /\ overlay_selected_key = 0
    /\ overlay_selected_sleep = 0
    /\ overlay_type_text = <<>> /\ overlay_type_active = FALSE
    /\ picker_active = None
    /\ drag_mode_active = FALSE /\ drag_start_point = NoPoint
    /\ trajectory = <<>> /\ step_count = 0
    /\ saved_screenshots = {} /\ saved_log = NoFile
    /\ last_screenshot = NoFrame /\ dispatched = <<>>
    /\ main_pc = "init"
    /\ workers = EmptyBag
    /\ n_accepted = 0 /\ dropped_flip = FALSE

Init ==
    /\ vm_width = 1920 /\ vm_height = 1080
    /\ window_width = 1920 /\ window_height = 1080
    /\ InitSession

\* the pipeline's run: left clicks on the live view, the overlay's scroll,
\* sleep and finish buttons, and the toggle, cancel and finish keys
PipeKeys == {"F12", "ESC", "SPACE"}
PipeViewPoints == {PtHud, PtA}
PipeOverlayPoints == {PtOutside, PtScrollUp, PtSleepGo, PtFinish}

\* the world of the pipeline's run: commands may fail; screenshots and
\* file writes succeed
PipeEnv == Env(RemoteOutcomes, {"ok"}, {TRUE}, {TRUE}, {"1.0"})

Next ==
    \/ Start
    \/ Quit
    \/ \E key \in PipeKeys : KeyDown(key)
    \/ \E pos \in ClickPoints(PipeViewPoints, PipeOverlayPoints) : LeftClick(pos)
    \/ Tick(PtA)
    \/ LoopExit
    \/ \E w \in InFlight : WorkerStep(w, PipeEnv)

Spec == Init /\ [][Next]_vars

(***************************************************************************)
(* Properties of the pipeline (specification Spec).                        *)
(***************************************************************************)
\* the live threads that satisfy P, with multiplicity
NumThreads(P(_)) ==
    BagCardinality([w \in {x \in BagToSet(workers) : P(x)} |-> workers[w]])

IsIntentThread(w) == w.kind \in {"action", "sleep"}
NumIntentThreads == NumThreads(IsIntentThread)

AwaitsRecord(w) == w.kind = "action" /\ w.pc = "record"

ActionSteps == Cardinality({i \in DOMAIN trajectory : trajectory[i].action_type # "sleep"})
SleepSteps  == Cardinality({i \in DOMAIN trajectory : trajectory[i].action_type = "sleep"})
Successes   == Cardinality({i \in DOMAIN dispatched : dispatched[i].outcome = "ok"})
Failures    == Cardinality({i \in DOMAIN dispatched : dispatched[i].outcome # "ok"})

\* C1: the Steps appended by intents that went through _execute_action are as
\* many as the commands the channel answered with success (a worker that has
\* its success and has not reached record_action yet counts as pending); a
\* failed command adds no Step and does not advance step_count.
C1_StepsMatchSuccesses ==
    /\ ActionSteps + NumThreads(AwaitsRecord) = Successes
    /\ step_count - SleepSteps + NumThreads(AwaitsRecord) = Successes

\* one command failed, one succeeded, all workers done: exactly one Step
C1_Witness ==
    /\ Failures = 1 /\ Successes = 1
    /\ workers = EmptyBag
    /\ Len(trajectory) = 1 /\ step_count = 1

\* C2: the step fields of the trajectory are 0, 1, ..., n-1 in list order and
\* step_count is n, in every state of every interleaving of the workers.
C2_StepsGapless ==
    /\ \A i \in DOMAIN trajectory : trajectory[i].step = i - 1
    /\ step_count = Len(trajectory)

\* two Steps recorded while a finish worker runs beside an intent worker
C2_Witness ==
    /\ Len(trajectory) = 2
    /\ NumWorkers = 2
    /\ \E w \in InFlight : w.kind = "finish"

\* C3: an intent submitted while is_busy is dropped: the step that drops it
\* happens under is_busy and changes neither the threads, nor the channel's
\* log, nor the trajectory; while is_busy holds no step starts an action or
\* sleep thread; and every command the channel received and every Step
\* belongs to an intent that passed the gate.
C3_DropStep ==
    /\ dropped_flip' # dropped_flip =>
          is_busy /\ UNCHANGED <<workers, dispatched, trajectory, step_count>>
    /\ is_busy => NumIntentThreads' <= NumIntentThreads

C3_OnlyAccepted ==
    /\ Len(dispatched) <= n_accepted
    /\ Len(trajectory) <= n_accepted

C3_BusyDrops == [][C3_DropStep]_vars /\ []C3_OnlyAccepted

\* an intent was dropped, and the run ended with the accepted intent alone
C3_Witness ==
    /\ dropped_flip
    /\ n_accepted = 1
    /\ workers = EmptyBag
    /\ Len(trajectory) + Failures = 1

\* C4: at most one background worker is in flight at every moment.
C4_SingleFlight == NumWorkers <= 1

\* a step of a worker thread: a thread moved on or ended, none started
WorkerStepTaken ==
    workers' # workers /\ BagCardinality(workers') <= BagCardinality(workers)

\* C5: no step of a worker changes a UI-mode variable.
C5_WorkersLeaveUiMode ==
    [][WorkerStepTaken =>
          UNCHANGED <<show_overlay, picker_active, overlay_type_active,
                      drag_mode_active, drag_start_point>>]_vars

(***************************************************************************)
(* The viewport's run (specification SpecView): VMs and screens of         *)
(* several sizes, the pointer at the edges, clicks and drags on the view.  *)
(***************************************************************************)
\* <<vm_width, vm_height, window_width, window_height>>: the VM as large as
\* the screen, larger on both axes, narrower but taller, wider but shorter,
\* and smaller on both
ViewConfigs ==
    {<<1920, 1080, 1920, 1080>>,
     <<1930, 1050, 1920, 1080>>,
     <<800, 1050, 1920, 1080>>,
     <<1290, 600, 1280, 720>>,
     <<1024, 600, 1280, 720>>}

\* the intents one run of the viewport submits
MaxViewIntents == 1

InitView ==
    /\ \E c \in ViewConfigs :
          /\ vm_width = c[1] /\ vm_height = c[2]
          /\ window_width = c[3] /\ window_height = c[4]
    /\ InitSession

\* where the pointer rests: the corners that pan, the bottom edge, the middle
MousePoints ==
    {<<0, hud_height>>, <<window_width - 1, window_height - 1>>,
     <<window_width \div 2, window_height - 1>>,
     <<window_width \div 2, window_height \div 2>>}

\* where the operator clicks on the view: the status strip, two points near
\* the top left, and the bottom-right corner of the screen
ViewClicks ==
    {PtHud, <<100, 140>>, <<300, 90>>, <<window_width - 1, window_height - 1>>}

\* commands, screenshots and file writes succeed
ViewEnv == Env({"ok"}, {"ok"}, {TRUE}, {TRUE}, {"1.0"})

NextView ==
    \/ Start
    \/ KeyDown("SPACE")
    \/ \E pos \in ClickPoints(ViewClicks, {PtDrag}) :
          n_accepted < MaxViewIntents /\ LeftClick(pos)
    \/ \E pos \in ViewClicks :
          n_accepted < MaxViewIntents /\ RightClick(pos)
    \/ \E m \in MousePoints : Tick(m)
    \/ \E w \in InFlight : WorkerStep(w, ViewEnv)

SpecView == InitView /\ [][NextView]_vars

(***************************************************************************)
(* Properties of the viewport (specification SpecView).                    *)
(***************************************************************************)
\* C7: after the pans of any run the offset is inside the canvas's slack:
\* viewport_x in [0, max(0, vm_width - window_width)] and viewport_y in
\* [0, max(0, vm_height - available_height)], whatever the sizes of the VM
\* and of the screen.
C7_OffsetInSlack ==
    /\ viewport_x \in 0 .. Max(0, vm_width - window_width)
    /\ viewport_y \in 0 .. Max(0, vm_height - available_height)

\* a VM narrower than the screen and taller than the view, panned to the
\* bottom: the offset is at the end of the vertical slack
C7_Witness ==
    /\ vm_width < window_width
    /\ vm_height > available_height
    /\ viewport_x = 0
    /\ viewport_y = vm_height - available_height

\* C7 as the specification words it: a pan leaves viewport_x in
\* [0, vm_width - window_width] and viewport_y in
\* [0, vm_height - available_height].
C7_OffsetInDifference ==
    [][viewVars' # viewVars =>
          /\ viewport_x' \in 0 .. (vm_width - window_width)
          /\ viewport_y' \in 0 .. (vm_height - available_height)]_vars

\* points of the canvas: its corners, its middle, the corners of the part in
\* view
CanvasSample ==
    {0, viewport_x, vm_width \div 2, Min(vm_width, viewport_x + window_width) - 1,
     vm_width - 1}
    \X {0, viewport_y, vm_height \div 2,
        Min(vm_height, viewport_y + available_height) - 1, vm_height - 1}

InCanvas(x, y) == x \in 0 .. (vm_width - 1) /\ y \in 0 .. (vm_height - 1)

\* C8: at every offset a run reaches, a point of the canvas taken to the
\* screen and back is the same point.
C8_RoundTrip ==
    \A p \in CanvasSample :
        LET s == _vm_to_screen(p[1], p[2])
        IN  InCanvas(p[1], p[2]) /\ _screen_to_vm(s[1], s[2]) = p

\* the view panned away from the origin on both axes
C8_Witness ==
    /\ viewport_x > 0 /\ viewport_y > 0
    /\ \E p \in CanvasSample : _vm_to_screen(p[1], p[2]) # <<p[1], p[2] + hud_height>>

\* the coordinate pairs an intent or a Step carries
CoordPairs(action_type, details) ==
    IF action_type \in {"click", "right_click"}
    THEN {<<details.nums[1], details.nums[2]>>}
    ELSE IF action_type = "drag"
    THEN {<<details.nums[1], details.nums[2]>>, <<details.nums[3], details.nums[4]>>}
    ELSE {}

\* C9: every coordinate pair of a click, right_click or drag intent handed to
\* a worker, every pair stored in a Step, and the start point a drag holds,
\* is inside the canvas.
C9_CoordsInCanvas ==
    /\ \A w \in InFlight :
          \A c \in CoordPairs(w.intent.action_type, w.intent.details) :
              InCanvas(c[1], c[2])
    /\ \A i \in DOMAIN trajectory :
          \A c \in CoordPairs(trajectory[i].action_type, trajectory[i].action_details) :
              InCanvas(c[1], c[2])
    /\ drag_start_point # NoPoint => InCanvas(drag_start_point[1], drag_start_point[2])

\* a click beyond the right edge of a VM narrower than the screen was
\* recorded at the canvas's last column
C9_Witness ==
    /\ vm_width < window_width
    /\ \E i \in DOMAIN trajectory :
          /\ trajectory[i].action_type \in {"click", "right_click"}
          /\ trajectory[i].action_details.nums[1] = vm_width - 1

\* "moveTo(x1, y1); drag(x2 - x1, y2 - y1, duration=0.5)" behind a prefix
DragText(prefix, n) ==
    prefix \o "moveTo(" \o ToString(n[1]) \o ", " \o ToString(n[2]) \o "); "
        \o prefix \o "drag(" \o ToString(n[3] - n[1]) \o ", " \o ToString(n[4] - n[2])
        \o ", duration=0.5)"

DragExample == <<100, 100, 300, 50>>

\* C10: a drag intent with start (x1, y1) and end (x2, y2) carries the command
\* moveTo(x1, y1); drag(x2 - x1, y2 - y1, duration=0.5), both as sent to the
\* channel and as recorded in the Step; from (100, 100) to (300, 50) it is
\* moveTo(100, 100); drag(200, -50, duration=0.5).
C10_DragCommand ==
    /\ \A w \in InFlight :
          w.intent.action_type = "drag" =>
              /\ w.intent.command = DragText("pyautogui.", w.intent.details.nums)
              /\ w.intent.pg_command = DragText("pg.", w.intent.details.nums)
              /\ w.intent.details.nums = DragExample =>
                    /\ w.intent.command =
                          "pyautogui.moveTo(100, 100); pyautogui.drag(200, -50, duration=0.5)"
                    /\ w.intent.pg_command =
                          "pg.moveTo(100, 100); pg.drag(200, -50, duration=0.5)"
    /\ \A i \in DOMAIN trajectory :
          trajectory[i].action_type = "drag" =>
              /\ trajectory[i].action = DragText("pg.", trajectory[i].action_details.nums)
              /\ \E j \in DOMAIN dispatched :
                    dispatched[j].command =
                        DragText("pyautogui.", trajectory[i].action_details.nums)

\* the drag from (100, 100) to (300, 50) was sent and recorded
C10_Witness ==
    /\ \E i \in DOMAIN trajectory :
          /\ trajectory[i].action_type = "drag"
          /\ trajectory[i].action_details.nums = DragExample
          /\ trajectory[i].action = "pg.moveTo(100, 100); pg.drag(200, -50, duration=0.5)"
    /\ \E j \in DOMAIN dispatched :
          dispatched[j].command =
              "pyautogui.moveTo(100, 100); pyautogui.drag(200, -50, duration=0.5)"

(***************************************************************************)
(* The operator's run through the overlay (specification SpecUI): the      *)
(* toggle and cancel keys, typing, the fields that open pickers, the drag  *)
(* button, clicks on the view.                                             *)
(***************************************************************************)
UiKeys == {"ESC", "SPACE", "a", "BACKSPACE"}

UiOverlayPoints ==
    {PtOutside, PtPanelBlank, PtTypeField, PtHotkeyField, PtKeyField, PtSleepField,
     PtDrag}

NextUI ==
    \/ Start
    \/ \E key \in UiKeys : KeyDown(key)
    \/ \E pos \in ClickPoints({PtA}, UiOverlayPoints) :
          (show_overlay \/ n_accepted < MaxViewIntents) /\ LeftClick(pos)
    \/ LoopExit
    \/ \E w \in InFlight : WorkerStep(w, ViewEnv)

SpecUI == Init /\ [][NextUI]_vars

\* what one press of the cancel key may do, by precedence
EscEffect ==
    IF picker_active # None
    THEN /\ picker_active' = None
         /\ UNCHANGED <<overlay_type_active, show_overlay, dragVars, is_running>>
    ELSE IF show_overlay /\ overlay_type_active
    THEN /\ overlay_type_active' = FALSE
         /\ UNCHANGED <<picker_active, show_overlay, dragVars, is_running>>
    ELSE IF show_overlay
    THEN /\ show_overlay' = FALSE
         /\ UNCHANGED <<picker_active, overlay_type_active, dragVars, is_running>>
    ELSE IF drag_mode_active
    THEN /\ drag_mode_active' = FALSE
         /\ drag_start_point' = NoPoint
         /\ UNCHANGED <<picker_active, overlay_type_active, show_overlay, is_running>>
    ELSE /\ is_running' = FALSE
         /\ UNCHANGED <<picker_active, overlay_type_active, show_overlay, dragVars>>

\* C6: a press of the cancel key has exactly one effect, the first that
\* applies of: close the open picker; leave text entry (overlay shown); close
\* the overlay; cancel the drag; end the session.  It starts no worker and
\* changes no selection and no typed text.
C6_EscPrecedence ==
    [][KeyDown("ESC") =>
          /\ EscEffect
          /\ UNCHANGED <<workers, is_busy, selVars, overlay_type_text, viewVars,
                         trajVars>>]_vars

\* the last rung was taken after others: the loop has ended, which in this
\* run only the cancel key brings about, after text was typed in the overlay
\* and a drag was cancelled
C6_Witness ==
    /\ main_pc = "exited"
    /\ ~is_running
    /\ picker_active = None /\ ~show_overlay /\ ~drag_mode_active
    /\ status_message = "Drag cancelled"
    /\ overlay_type_text = <<"a">>

(***************************************************************************)
(* The operator types one text and sends it (specification SpecType): the  *)
(* type field, the characters that need escaping, RETURN and the Go button.*)
(***************************************************************************)
TypeKeys == {"SPACE", "RETURN", "BACKSPACE", "\\", "'", "\"", "a"}

TypeOverlayPoints == {PtTypeField, PtTypeGo, PtPanelBlank}

\* input stops once the text was sent
NextType ==
    \/ Start
    \/ \E key \in TypeKeys : n_accepted = 0 /\ KeyDown(key)
    \/ \E pos \in ClickPoints({PtHud}, TypeOverlayPoints) :
          n_accepted = 0 /\ LeftClick(pos)
    \/ \E w \in InFlight : WorkerStep(w, ViewEnv)

SpecType == Init /\ [][NextType]_vars

\* reading a single-quoted literal from position i of cs: a backslash gives
\* the next character as it is, an apostrophe ends the literal.
\* <<the text read, the position after the closing quote, closed?>>
RECURSIVE ReadLiteral(_, _, _)
ReadLiteral(cs, i, acc) ==
    IF i > Len(cs) THEN <<acc, i, FALSE>>
    ELSE IF cs[i] = "'" THEN <<acc, i + 1, TRUE>>
    ELSE IF cs[i] = "\\"
         THEN IF i + 1 > Len(cs) THEN <<acc, i, FALSE>>
              ELSE ReadLiteral(cs, i + 2, Append(acc, cs[i + 1]))
         ELSE ReadLiteral(cs, i + 1, Append(acc, cs[i]))

TypeHead == "pyautogui.typewrite('"
TypeTail == ", interval=0.05)"

\* the command reads back as typewrite('<text>', interval=0.05)
ReadsBack(command, text) ==
    LET r == ReadLiteral(Chars(command), Len(TypeHead) + 1, <<>>)
    IN  /\ SubSeq(command, 1, Len(TypeHead)) = TypeHead
        /\ r[3]
        /\ r[1] = text
        /\ SubSeq(command, r[2], Len(command)) = TypeTail

TypeExample == Chars("it's \"done\"")

\* C11: the text that execute_typewrite puts between the single quotes reads
\* back, as a single-quoted literal, as the text it was given, with no
\* apostrophe ending the literal early: for the text in the type field, for
\* every typewrite intent a worker holds, and for the text it's "done".
C11_EscapeReadsBack ==
    /\ ReadsBack(execute_typewrite(overlay_type_text), overlay_type_text)
    /\ \A w \in InFlight :
          w.intent.action_type = "typewrite" =>
              ReadsBack(w.intent.command, Chars(w.intent.details.strs[1]))
    /\ ReadsBack(execute_typewrite(TypeExample), TypeExample)

\* a worker sent the text backslash, apostrophe to the channel
C11_Witness ==
    /\ \E w \in InFlight :
          /\ w.intent.action_type = "typewrite"
          /\ w.intent.details.strs[1] = "\\'"
          /\ w.pc = "record"
    /\ \E j \in DOMAIN dispatched :
          dispatched[j].command = "pyautogui.typewrite('\\\\\\'', interval=0.05)"

\* a command with the module name pyautogui written pg
RECURSIVE Renamed(_)
Renamed(s) ==
    IF Len(s) < Len("pyautogui.") THEN s
    ELSE IF SubSeq(s, 1, Len("pyautogui.")) = "pyautogui."
         THEN "pg." \o Renamed(SubSeq(s, Len("pyautogui.") + 1, Len(s)))
         ELSE SubSeq(s, 1, 1) \o Renamed(SubSeq(s, 2, Len(s)))

IsOk(d) == d.outcome = "ok"
IsActionStep(st) == st.action_type # "sleep"

\* C12: the k-th Step recorded for a command carries, in its action field,
\* the k-th command the channel accepted, with pyautogui written pg.
C12_RecordedIsDispatched ==
    LET sent == SelectSeq(dispatched, IsOk)
        steps == SelectSeq(trajectory, IsActionStep)
    IN  \A k \in DOMAIN steps :
            /\ k <= Len(sent)
            /\ steps[k].action = Renamed(sent[k].command)

(***************************************************************************)
(* A command that fails (specification Spec).                              *)
(***************************************************************************)
BeforeResult(w) == w.kind = "action" /\ w.pc \in {"save_before", "execute"}
AfterFailure(w) == w.kind = "action" /\ w.pc = "finally"
NumBeforeResult == NumThreads(BeforeResult)
NumAfterFailure == NumThreads(AfterFailure)

\* every intent accepted before the one a worker is about to send has been
\* settled: it left its Step or its failure, so the trajectory is still the
\* one of the moment the worker's intent passed the gate
C13_AsAtAcceptance ==
    NumBeforeResult > 0 =>
        /\ NumBeforeResult = 1
        /\ Len(trajectory) + Failures + 1 = n_accepted
        /\ step_count = Len(trajectory)

\* the step in which the channel answers with a failure, and the step in
\* which the worker of a failed command runs its finally block
C13_FailStep ==
    /\ Failures' > Failures =>
          /\ status_message' =
                 "Error: " \o ResultError(dispatched'[Len(dispatched')].outcome)
          /\ ResultError(dispatched'[Len(dispatched')].outcome) # ""
          /\ UNCHANGED <<trajectory, step_count>>
          /\ NumAfterFailure' = NumAfterFailure + 1
    /\ NumAfterFailure' < NumAfterFailure => is_busy' = FALSE

\* C13: when the remote call of an accepted intent fails, the worker puts the
\* error into status_message, appends no Step and leaves step_count alone, so
\* that trajectory and step_count are the ones of the moment the intent was
\* accepted, and its finally block clears is_busy.
C13_FailureLeavesNoStep == [][C13_FailStep]_vars /\ []C13_AsAtAcceptance

\* a command failed, nothing was recorded, and the next intent passed the gate
C13_Witness ==
    /\ Failures = 1 /\ n_accepted = 2
    /\ trajectory = <<>> /\ step_count = 0
    /\ NumBeforeResult = 1

(***************************************************************************)
(* The end of the session (specification Spec).                            *)
(***************************************************************************)
\* every Step of the trajectory is in the log save_trajectory wrote
AllStepsSaved ==
    \/ trajectory = <<>>
    \/ /\ saved_log # NoFile
       /\ \A i \in DOMAIN trajectory :
             i \in DOMAIN saved_log[1] /\ saved_log[1][i] = JsonDumps(trajectory[i])

\* C15: in the step that ends the session (is_running becomes false: cancel
\* key, window close or the end of the finish worker), either no worker is in
\* flight or every Step recorded so far is in the saved trajectory log.
C15_EndsSavedOrIdle ==
    [][is_running /\ ~is_running' => (workers' = EmptyBag \/ AllStepsSaved')]_vars

(***************************************************************************)
(* A failing world (specification SpecFail): commands fail, screenshot     *)
(* fetches fail, files cannot be written, frames cannot be converted.      *)
(***************************************************************************)
FailEnv == Env(AllRemoteOutcomes, FetchOutcomes, {TRUE, FALSE}, {TRUE, FALSE}, {"1.0"})

FailOverlayPoints == {PtOutside, PtSleepGo}

NextFail ==
    \/ Start
    \/ KeyDown("SPACE")
    \/ \E pos \in ClickPoints({PtA}, FailOverlayPoints) : LeftClick(pos)
    \/ \E w \in InFlight : WorkerStep(w, FailEnv)

SpecFail == Init /\ [][NextFail]_vars

\* C14: while the session runs, is_busy is true only while some worker is in
\* flight: a worker that ends, by success or by any failure, has cleared it.
C14_BusyHasWorker ==
    main_pc = "loop" /\ is_running /\ is_busy => workers # EmptyBag

(***************************************************************************)
(* Screenshot references of the Steps (specification SpecFail).            *)
(***************************************************************************)
\* C16: every Step's screenshot reference is the name of the before
\* screenshot of the Step's own index, step_<k>_before.png for step k.
C16_EveryStepNamesItsFile ==
    \A i \in DOMAIN trajectory :
        trajectory[i].screenshot = ScreenshotName(trajectory[i].step)

\* C16, as the code has it: a Step's screenshot reference is empty (no frame
\* was on display when the worker started, or the file could not be written)
\* or it is step_<k>_before.png for the Step's own index k, and that file was
\* written; the same holds of the reference a worker carries to record_action.
C16_ReferenceEmptyOrOwnIndex ==
    /\ \A i \in DOMAIN trajectory :
          \/ trajectory[i].screenshot = ""
          \/ /\ trajectory[i].screenshot = ScreenshotName(trajectory[i].step)
             /\ trajectory[i].step \in saved_screenshots
    /\ \A w \in InFlight :
          w.pc \in {"execute", "record"} /\ w.path # "" =>
              w.path = ScreenshotName(step_count) /\ step_count \in saved_screenshots

\* Step 0 without a reference (its file could not be written), Step 1 with
\* the reference to its own file
C16_Witness ==
    /\ Len(trajectory) = 2
    /\ trajectory[1].screenshot = ""
    /\ trajectory[2].screenshot = "step_1_before.png"
    /\ current_screenshot # NoFrame

(***************************************************************************)
(* Screenshot retrieval (specification SpecFail).  _last_screenshot is set *)
(* by every successful fetch and never reset, so it is NoFrame exactly     *)
(* while no fetch has succeeded yet.  A call of get_screenshot_with_retry  *)
(* is checked, in every reachable state, for every way its attempts may    *)
(* end.                                                                    *)
(***************************************************************************)
FetchRuns == [1 .. max_retries -> FetchOutcomes]

SomeOk(outs) == \E i \in DOMAIN outs : outs[i] = "ok"

C17_Call ==
    \A outs \in FetchRuns :
        LET r == get_screenshot_with_retry(outs, last_screenshot)
        IN  /\ r[3] \in 1 .. max_retries
            /\ r[1] = NoFrame => last_screenshot = NoFrame /\ ~SomeOk(outs)
            /\ last_screenshot # NoFrame => r[1] # NoFrame
            /\ r[1] # NoFrame => r[2] # NoFrame

\* a worker that got nothing from its call: no fetch had succeeded before
C17_Workers ==
    \A w \in InFlight :
        w.kind # "finish" /\ w.pc = "display" /\ w.img = NoFrame =>
            last_screenshot = NoFrame

C17_CacheStays == last_screenshot # NoFrame => last_screenshot' # NoFrame

C18_StaleAfterAllRetries ==
    \A outs \in FetchRuns :
        LET r == get_screenshot_with_retry(outs, last_screenshot)
        IN  last_screenshot # NoFrame =>
                /\ SomeOk(outs) => outs[r[3]] = "ok" /\ r[1] = VmFrame
                /\ ~SomeOk(outs) => r[3] = max_retries /\ r[1] = last_screenshot

(***************************************************************************)
(* The frame shown after an action (specification SpecFail).               *)
(***************************************************************************)
ShowsFrame(w) == w.kind = "action" /\ w.pc = "display" /\ w.img # NoFrame

C19_LatestFetched ==
    \A w \in InFlight :
        w.kind = "action" /\ w.pc = "display" =>
            /\ w.img = last_screenshot
            /\ w.img # NoFrame => w.img[1] <= Len(dispatched)

C19_Swap ==
    current_screenshot' # current_screenshot => current_screenshot' = last_screenshot

LastOutcome == dispatched[Len(dispatched)].outcome

SentBy(w) ==
    /\ w.kind = "action" /\ w.pc = "execute"
    /\ dispatched' = Append(dispatched,
           [command |-> w.intent.command, outcome |-> LastOutcome'])

\* the step in which a worker's execute_* call sends its command
C20_Dispatch ==
    dispatched' # dispatched =>
        /\ \E w \in InFlight : SentBy(w)
        /\ BagCardinality(workers') = BagCardinality(workers)
        /\ IF LastOutcome' = "ok"
           THEN /\ NumThreads(AwaitsRecord)' = NumThreads(AwaitsRecord) + 1
                /\ UNCHANGED status_message
           ELSE /\ NumAfterFailure' = NumAfterFailure + 1
                /\ status_message' = "Error: " \o ResultError(LastOutcome')

\* C20: a result with success false carries an error that is not empty.
C20_FailureHasError ==
    [][dispatched' # dispatched /\ LastOutcome' # "ok" =>
          ResultError(LastOutcome') # ""]_vars

\* C20, as the code has it: an execute_* call sends exactly one command, the
\* one built from the intent, and does not raise (the worker goes on); the
\* result is a success exactly when the channel neither raised nor answered
\* with an error, and the worker then goes to record_action; otherwise the
\* worker shows "Error: " and the error of the result, which is the text of
\* the exception and may be empty.
C20_OneCommandNoRaise == [][C20_Dispatch]_vars

\* the channel raised an exception without a message
C20_Witness ==
    /\ Len(dispatched) = 1 /\ LastOutcome = "raise_empty"
    /\ status_message = "Error: "
    /\ NumAfterFailure = 1

(***************************************************************************)
(* UI modes (specification SpecUI).                                        *)
(***************************************************************************)
\* C21: the overlay is never shown while a drag is armed or pending.
C21_OverlayOrDrag == ~(show_overlay /\ drag_mode_active)

\* C25: while a picker is open the overlay is shown.
C25_PickerInOverlay == picker_active # None => show_overlay

\* C26: while text entry is active the overlay is shown.
C26_TextEntryInOverlay == overlay_type_active => show_overlay

\* text entry begins, a character is captured, and the overlay opens
C26_Step ==
    /\ ~overlay_type_active /\ overlay_type_active' => show_overlay /\ show_overlay'
    /\ Len(overlay_type_text') > Len(overlay_type_text) =>
          show_overlay /\ overlay_type_active /\ show_overlay'
    /\ ~show_overlay /\ show_overlay' => ~overlay_type_active'

\* C26, as the code has it: text entry begins only while the overlay is
\* shown, a character is captured only while the overlay is shown and text
\* entry is active, and the step that opens the overlay leaves text entry
\* inactive; overlay_type_active itself may stay true while the overlay is
\* closed.
C26_TextEntryWithinOverlay == [][C26_Step]_vars

\* the overlay was closed during text entry, after a character was typed
C26_Witness ==
    /\ ~show_overlay /\ overlay_type_active
    /\ overlay_type_text = <<"a">>

(***************************************************************************)
(* Keys (specification SpecUI).                                            *)
(***************************************************************************)
InTextEntry == show_overlay /\ overlay_type_active

C28_KeyStep ==
    \A key \in {"SPACE", "a"} :
        KeyDown(key) =>
            IF InTextEntry
            THEN key = "SPACE" =>
                    /\ overlay_type_text' = Append(overlay_type_text, " ")
                    /\ UNCHANGED show_overlay
            ELSE /\ UNCHANGED overlay_type_text
                 /\ key = "SPACE" /\ picker_active = None =>
                        show_overlay' = ~show_overlay

\* C28: in text entry (overlay shown) the space key appends a space to the
\* text and leaves show_overlay alone; outside text entry no printable key
\* changes the text, and the space key toggles the overlay (unless a picker
\* is open).
C28_KeysByMode == [][C28_KeyStep]_vars

\* a space was typed into the text after a letter
C28_Witness ==
    /\ InTextEntry
    /\ overlay_type_text = <<"a", " ">>

C29_ToggleStep ==
    KeyDown("SPACE") =>
        /\ picker_active # None => UNCHANGED <<show_overlay, picker_active>>
        /\ picker_active = None /\ ~overlay_type_active =>
              /\ show_overlay' = ~show_overlay
              /\ overlay_type_active' = FALSE
              /\ picker_active' = None
        /\ UNCHANGED <<workers, is_busy, selVars, dragVars, is_running>>

\* C29: with a picker open the toggle key changes neither show_overlay nor
\* picker_active; with no picker open and text entry inactive it negates
\* show_overlay and leaves text entry inactive.  It starts no worker.
C29_ToggleUnlessPicker == [][C29_ToggleStep]_vars

\* a second picker is open, after an item was chosen in the first
C29_Witness ==
    /\ show_overlay
    /\ picker_active = "key"
    /\ overlay_selected_hotkey = 1

(***************************************************************************)
(* The confirm key and backspace in text entry (specification SpecType).   *)
(***************************************************************************)
TypeThread(text) ==
    \E w \in BagToSet(workers') :
        /\ w.intent.action_type = "typewrite"
        /\ w.intent.details.strs = <<Concat(text)>>

C27_Confirm ==
    /\ overlay_type_text' = <<>>
    /\ (~is_busy => TypeThread(overlay_type_text))
    /\ show_overlay'
    /\ ~overlay_type_active'

C27_Backspace ==
    /\ overlay_type_text' = SubSeq(overlay_type_text, 1, Len(overlay_type_text) - 1)
    /\ UNCHANGED <<show_overlay, overlay_type_active, picker_active, selVars,
                   dragVars, workers, is_busy, trajVars>>

C27_Step ==
    /\ (InTextEntry /\ overlay_type_text # <<>> /\ KeyDown("RETURN")) => C27_Confirm
    /\ (InTextEntry /\ KeyDown("BACKSPACE")) => C27_Backspace

\* C27: in text entry with text in the buffer, the confirm key starts a
\* typewrite intent with that text, empties the buffer and leaves text entry
\* (the overlay stays shown); a backspace removes the last character of the
\* buffer and changes nothing else.
C27_ConfirmLeavesTextEntry == [][C27_Step]_vars

(***************************************************************************)
(* The pickers (specification SpecPicker): the hotkey and key pickers, the  *)
(* scroll button beside them, and clicks where a picker's items are.       *)
(***************************************************************************)
PickerClicks ==
    IF picker_active # None
    THEN {PtItem(picker_active, 1), PtItem(picker_active, 2),
          PtPopupBlank(picker_active), PtOutside}
    ELSE IF show_overlay
    THEN {PtHotkeyField, PtKeyField, PtScrollUp}
    ELSE {}

NextPicker ==
    \/ Start
    \/ \E key \in {"SPACE", "ESC"} : KeyDown(key)
    \/ \E pos \in PickerClicks : LeftClick(pos)
    \/ \E w \in InFlight : WorkerStep(w, ViewEnv)

SpecPicker == Init /\ [][NextPicker]_vars

Selected(kind) ==
    IF kind = "hotkey" THEN overlay_selected_hotkey
    ELSE IF kind = "key" THEN overlay_selected_key
    ELSE overlay_selected_sleep

C30_Closed ==
    /\ picker_active' = None
    /\ show_overlay'
    /\ UNCHANGED <<workers, is_busy, dispatched, trajectory, n_accepted>>

C30_Step ==
    picker_active # None =>
        /\ \A i \in {1, 2} :
              LeftClick(PtItem(picker_active, i)) =>
                  /\ C30_Closed
                  /\ \A kind \in {"hotkey", "key", "sleep"} :
                        Selected(kind)' =
                            IF kind = picker_active THEN i ELSE Selected(kind)
        /\ LeftClick(PtOutside) \/ KeyDown("ESC") =>
              C30_Closed /\ UNCHANGED selVars

\* C30: with a picker open, a click on item i sets the selection of the
\* picker's kind to i, leaves the two other selections alone and closes the
\* picker; a click outside the popup or the cancel key closes the picker and
\* leaves the three selections alone; in each case the overlay stays shown
\* and no intent is accepted.
C30_PickerSteps == [][C30_Step]_vars

(***************************************************************************)
(* The before screenshot that cannot be written (specification SpecFail).  *)
(***************************************************************************)
\* the step in which save_before_screenshot fails: a frame is on display, no
\* file is written, and the worker goes on to its command with no reference
SaveFailed ==
    \E w \in InFlight :
        /\ w.kind \in {"action", "sleep"} /\ w.pc = "save_before"
        /\ current_screenshot # NoFrame
        /\ workers' = (workers (-) SetToBag({w}))
                          (+) SetToBag({[w EXCEPT !.path = "", !.pc = "execute"]})

\* C22: when the before screenshot cannot be written, the failure is put
\* into status_message, and the worker goes on: the session is not halted.
C22_SaveFailureShown ==
    [][SaveFailed => status_message' # status_message /\ is_running']_vars

(***************************************************************************)
(* The order of the pipeline's events (specification SpecFail).            *)
(***************************************************************************)
AtSaveBefore(w) == IsIntentThread(w) /\ w.pc = "save_before"
AtFinally(w) == w.pc = "finally"
Settled == Len(trajectory) + Failures

\* where a worker stands tells what has happened for its intent
C24_Order ==
    \A w \in InFlight :
        IsIntentThread(w) =>
            /\ w.pc # "close_overlay" => is_busy
            /\ w.pc \in {"save_before", "execute"} =>
                  /\ Settled + 1 = n_accepted
                  /\ w.kind = "action" => Len(dispatched) = ActionSteps + Failures
            /\ w.pc = "save_before" => w.path = ""
            /\ w.pc = "record" =>
                  /\ Settled + 1 = n_accepted
                  /\ w.kind = "action" =>
                        /\ dispatched # <<>>
                        /\ LastOutcome = "ok"
                        /\ dispatched[Len(dispatched)].command = w.intent.command
            /\ w.pc \in {"fetch", "display"} =>
                  /\ Settled = n_accepted
                  /\ trajectory # <<>>
                  /\ trajectory[Len(trajectory)].action = w.intent.pg_command

\* each event of the pipeline happens in a step of its own
C24_Step ==
    /\ n_accepted' > n_accepted =>
          /\ ~is_busy /\ is_busy'
          /\ NumThreads(AtSaveBefore)' = NumThreads(AtSaveBefore) + 1
          /\ UNCHANGED <<trajVars, dispatched, current_screenshot>>
    /\ saved_screenshots' # saved_screenshots =>
          UNCHANGED <<dispatched, trajectory, current_screenshot, is_busy>>
    /\ dispatched' # dispatched =>
          UNCHANGED <<trajVars, current_screenshot, is_busy>>
    /\ trajectory' # trajectory =>
          UNCHANGED <<dispatched, current_screenshot, is_busy>>
    /\ current_screenshot' # current_screenshot =>
          UNCHANGED <<dispatched, trajVars, is_busy>>
    /\ is_busy /\ ~is_busy' =>
          /\ NumThreads(AtFinally)' = NumThreads(AtFinally) - 1
          /\ UNCHANGED <<dispatched, trajVars, current_screenshot>>

\* C24: for every accepted intent, is_busy is set in the step of the event
\* loop that starts the worker; the before screenshot is written before the
\* command is sent; the Step is appended after the command returned success;
\* the displayed frame is swapped after the Step is appended; and is_busy is
\* cleared after all of these, so it is true from acceptance to the finally
\* block.
C24_PipelineOrder == [][C24_Step]_vars /\ []C24_Order

\* the whole sequence ran: file written, command sent, Step appended, frame
\* swapped, and the worker is about to clear is_busy
C24_Witness ==
    /\ is_busy
    /\ 0 \in saved_screenshots
    /\ Len(dispatched) = 1 /\ Len(trajectory) = 1
    /\ trajectory[1].screenshot # ""
    /\ current_screenshot = <<1>>
    /\ \E w \in InFlight : w.kind = "action" /\ w.pc = "finally"

(***************************************************************************)
(* The trajectory log read back (specification SpecLog): the operator      *)
(* sends a text that holds a quotation mark or a backslash, then a hotkey,*)
(* a sleep or a scroll, and ends the session with F12, each when the      *)
(* pipeline is idle.                                                       *)
(***************************************************************************)
NextLog ==
    \/ Start
    \/ \E key \in {"RETURN", "\\", "\""} :
          ~is_busy /\ n_accepted = 0 /\ KeyDown(key)
    \/ \E key \in {"SPACE", "F12"} : ~is_busy /\ KeyDown(key)
    \/ \E pos \in ClickPoints({}, {PtTypeField, PtHotkeyGo, PtSleepGo, PtScrollUp}) :
          ~is_busy /\ LeftClick(pos)
    \/ \E w \in InFlight : WorkerStep(w, ViewEnv)

SpecLog == Init /\ [][NextLog]_vars

\* ---- reading a line of the log as JSON ----
\* A reader works on the characters cs of the line from position i and gives
\* [ok, kind, text, items, next]: whether a value was read, what it is (text
\* and items as characters), and the position after it.
At(cs, i) == IF i \in DOMAIN cs THEN cs[i] ELSE ""

Lit(cs, i, lit) ==
    /\ i >= 1
    /\ i + Len(lit) - 1 <= Len(cs)
    /\ \A k \in 1 .. Len(lit) : cs[i + k - 1] = SubSeq(lit, k, k)

After(cs, i, lit) == IF Lit(cs, i, lit) THEN i + Len(lit) ELSE 0

NotRead == [ok |-> FALSE, kind |-> "", text |-> <<>>, items |-> <<>>, next |-> 0]

\* the characters of a string literal, from the one after its opening mark:
\* a backslash is followed by the quotation mark or the backslash it stands
\* for, a quotation mark ends the literal
RECURSIVE ReadChars(_, _, _)
ReadChars(cs, i, acc) ==
    IF i \notin DOMAIN cs THEN NotRead
    ELSE IF cs[i] = "\""
    THEN [ok |-> TRUE, kind |-> "str", text |-> acc, items |-> <<>>, next |-> i + 1]
    ELSE IF cs[i] = "\\"
    THEN IF At(cs, i + 1) \in {"\"", "\\"}
         THEN ReadChars(cs, i + 2, Append(acc, cs[i + 1]))
         ELSE NotRead
    ELSE ReadChars(cs, i + 1, Append(acc, cs[i]))

ReadStr(cs, i) == IF At(cs, i) = "\"" THEN ReadChars(cs, i + 1, <<>>) ELSE NotRead

RECURSIVE NumEnd(_, _)
NumEnd(cs, i) ==
    IF At(cs, i) \in {"-", ".", "0", "1", "2", "3", "4", "5", "6", "7", "8", "9"}
    THEN NumEnd(cs, i + 1)
    ELSE i

NumUpTo(cs, i, j) ==
    IF j > i
    THEN [ok |-> TRUE, kind |-> "num", text |-> SubSeq(cs, i, j - 1),
          items |-> <<>>, next |-> j]
    ELSE NotRead

ReadNum(cs, i) == IF i >= 1 THEN NumUpTo(cs, i, NumEnd(cs, i)) ELSE NotRead

\* the strings of a list, from the one after "[" or after ", "
RECURSIVE ReadItems(_, _, _)
RECURSIVE ItemsAfter(_, _, _)
ReadItems(cs, i, acc) == ItemsAfter(cs, acc, ReadStr(cs, i))

ItemsAfter(cs, acc, s) ==
    IF ~s.ok THEN NotRead
    ELSE IF At(cs, s.next) = "]"
    THEN [ok |-> TRUE, kind |-> "list", text |-> <<>>,
          items |-> Append(acc, s.text), next |-> s.next + 1]
    ELSE IF Lit(cs, s.next, ", ")
    THEN ReadItems(cs, s.next + 2, Append(acc, s.text))
    ELSE NotRead

ReadValue(cs, i) ==
    IF At(cs, i) = "\"" THEN ReadStr(cs, i)
    ELSE IF At(cs, i) = "["
    THEN IF At(cs, i + 1) = "]"
         THEN [ok |-> TRUE, kind |-> "list", text |-> <<>>, items |-> <<>>,
               next |-> i + 2]
         ELSE ReadItems(cs, i + 1, <<>>)
    ELSE ReadNum(cs, i)

\* the items of an object, from the one after "{" or after ", "
NoDict == [ok |-> FALSE, dict |-> <<>>, next |-> 0]

RECURSIVE ReadPairs(_, _, _)
RECURSIVE PairsAfterKey(_, _, _)
RECURSIVE PairsAfterValue(_, _, _)
ReadPairs(cs, i, acc) == PairsAfterKey(cs, acc, ReadStr(cs, i))

PairsAfterKey(cs, acc, k) ==
    IF ~k.ok THEN NoDict
    ELSE PairsAfterValue(cs, Append(acc, k.text),
                         ReadValue(cs, After(cs, k.next, ": ")))

\* acc ends with the key of the value v
PairsAfterValue(cs, acc, v) ==
    IF ~v.ok THEN NoDict
    ELSE IF At(cs, v.next) = "}"
    THEN [ok |-> TRUE, next |-> v.next + 1,
          dict |-> Append(SubSeq(acc, 1, Len(acc) - 1),
                          [key |-> acc[Len(acc)], kind |-> v.kind,
                           text |-> v.text, items |-> v.items])]
    ELSE IF Lit(cs, v.next, ", ")
    THEN ReadPairs(cs, v.next + 2,
                   Append(SubSeq(acc, 1, Len(acc) - 1),
                          [key |-> acc[Len(acc)], kind |-> v.kind,
                           text |-> v.text, items |-> v.items]))
    ELSE NoDict

\* the fields json.dumps writes before "action_details": the text that comes
\* before each value, and the kind of the value
LineFields ==
    << [lit |-> "{\"step\": ", kind |-> "num"],
       [lit |-> ", \"observation\": {\"screenshot\": ", kind |-> "str"],
       [lit |-> "}, \"action\": ", kind |-> "str"],
       [lit |-> ", \"action_type\": ", kind |-> "str"] >>

RECURSIVE ReadFields(_, _, _, _)
RECURSIVE FieldsAfter(_, _, _, _)
ReadFields(cs, i, fields, acc) ==
    IF fields = <<>> THEN [ok |-> TRUE, dict |-> acc, next |-> i]
    ELSE FieldsAfter(cs, fields, acc,
                     IF Head(fields).kind = "num"
                     THEN ReadNum(cs, After(cs, i, Head(fields).lit))
                     ELSE ReadStr(cs, After(cs, i, Head(fields).lit)))

FieldsAfter(cs, fields, acc, v) ==
    IF ~v.ok THEN NoDict
    ELSE ReadFields(cs, v.next, Tail(fields), Append(acc, v.text))

ReadDetails(cs, f) ==
    IF ~f.ok THEN NoDict
    ELSE IF Lit(cs, f.next, ", \"action_details\": {")
    THEN ReadPairs(cs, After(cs, f.next, ", \"action_details\": {"), <<>>)
    ELSE [ok |-> TRUE, dict |-> <<>>, next |-> f.next]

\* what was read, as strings
Texts(dict) ==
    [i \in DOMAIN dict |->
        [key |-> Concat(dict[i].key), kind |-> dict[i].kind,
         text |-> Concat(dict[i].text),
         items |-> [j \in DOMAIN dict[i].items |-> Concat(dict[i].items[j])]]]

LineRead(cs, f, d) ==
    IF f.ok /\ d.ok /\ d.next = Len(cs) /\ At(cs, d.next) = "}"
    THEN [ok |-> TRUE, step |-> Concat(f.dict[1]), screenshot |-> Concat(f.dict[2]),
          action |-> Concat(f.dict[3]), action_type |-> Concat(f.dict[4]),
          action_details |-> Texts(d.dict)]
    ELSE [ok |-> FALSE, step |-> "", screenshot |-> "", action |-> "",
          action_type |-> "", action_details |-> <<>>]

LineFrom(cs, f) == LineRead(cs, f, ReadDetails(cs, f))

LineOf(cs) == LineFrom(cs, ReadFields(cs, 1, LineFields, <<>>))

\* one line of trajectory.jsonl read as the object save_trajectory wrote
ReadLine(line) == LineOf(Chars(line))

\* what was read is the Step: its number, command text, action tag and
\* parameter map
IsStep(r, entry) ==
    /\ r.ok
    /\ r.step = ToString(entry.step)
    /\ r.action = entry.action
    /\ r.action_type = entry.action_type
    /\ r.action_details = DetailsDict(entry.action_type, entry.action_details)

ReadsAs(line, entry) == IsStep(ReadLine(line), entry)

C23_SaveStep ==
    saved_log' # saved_log =>
        /\ saved_log' # NoFile
        /\ Len(saved_log'[1]) = Len(trajectory)
        /\ \A i \in DOMAIN trajectory : ReadsAs(saved_log'[1][i], trajectory[i])

\* C23: a save_trajectory whose write succeeds leaves a log with exactly one
\* line per Step of the trajectory, in Step order, and every line, read as
\* JSON, gives back the command text, the action tag and the parameter map
\* that record_action was given for that Step.
C23_LogReadsBack == [][C23_SaveStep]_vars

\* a log of two Steps was written: a typed quotation mark and backslash, then
\* a hotkey, and the lines read back as what was recorded
C23_Witness ==
    /\ saved_log # NoFile
    /\ Len(saved_log[1]) = 2
    /\ trajectory[1].action_type = "typewrite"
    /\ trajectory[1].action_details.strs = <<"\"\\">>
    /\ trajectory[2].action_type = "hotkey"
    /\ ReadLine(saved_log[1][1]).action = "pg.typewrite('\"\\')"
    /\ ReadLine(saved_log[1][2]).action_details[1].items
          = trajectory[2].action_details.strs

(***************************************************************************)
(* Clicks and drags on the live view (specification SpecDrag): left and    *)
(* right clicks on the status strip and on the VM area, the overlay's drag *)
(* button, a click beside the panel, the toggle and cancel keys.           *)
(***************************************************************************)
NextDrag ==
    \/ Start
    \/ \E key \in {"ESC", "SPACE"} : KeyDown(key)
    \/ \E pos \in ClickPoints(ViewPoints, {PtDrag, PtOutside}) : LeftClick(pos)
    \/ \E pos \in ViewPoints : RightClick(pos)
    \/ LoopExit
    \/ \E w \in InFlight : WorkerStep(w, ViewEnv)

SpecDrag == Init /\ [][NextDrag]_vars

\* the VM-space point of a click at pos
VmPoint(pos) == _screen_to_vm(pos[1], pos[2])

\* the click at pos is taken as a click on the view
OnView(pos) == ~show_overlay /\ pos[2] >= hud_height

\* the step starts exactly one thread, for an intent with this action tag
\* and these coordinates, and starts nothing else
DispatchesOne(tag, coords) ==
    /\ n_accepted' = n_accepted + 1
    /\ \E w \in BagToSet(workers') :
          /\ workers' = workers (+) SetToBag({w})
          /\ w.kind = "action" /\ w.pc = "save_before"
          /\ w.intent.action_type = tag
          /\ w.intent.details.nums = coords

DispatchesNothing == UNCHANGED <<workers, n_accepted, dispatched, trajectory>>

\* the step starts a thread that carries a drag intent
DragThreadStarts ==
    /\ BagCardinality(workers') > BagCardinality(workers)
    /\ \E w \in BagToSet(workers') :
          /\ w.intent.action_type = "drag"
          /\ (w \notin BagToSet(workers) \/ workers'[w] > workers[w])

C31_Click(pos) ==
    /\ show_overlay /\ picker_active = None /\ on_drag_button(pos) /\ ~drag_mode_active
          => /\ drag_mode_active' /\ drag_start_point' = NoPoint
             /\ ~show_overlay'
             /\ DispatchesNothing
    /\ OnView(pos) /\ ~is_busy /\ drag_mode_active /\ drag_start_point = NoPoint
          => /\ drag_start_point' = VmPoint(pos)
             /\ drag_mode_active'
             /\ DispatchesNothing
    /\ OnView(pos) /\ ~is_busy /\ drag_mode_active /\ drag_start_point # NoPoint
          => /\ DispatchesOne("drag", drag_start_point \o VmPoint(pos))
             /\ ~drag_mode_active' /\ drag_start_point' = NoPoint
             /\ ~show_overlay'

C31_Step ==
    /\ \A pos \in ViewPoints \cup {PtDrag, PtOutside} : LeftClick(pos) => C31_Click(pos)
    /\ DragThreadStarts => drag_mode_active /\ drag_start_point # NoPoint

\* C31: the overlay's drag button, with no drag armed, arms drag mode with no
\* start point and closes the overlay; the first accepted click on the view
\* then records its VM-space point as the start and dispatches nothing; the
\* next accepted click at q dispatches exactly one drag intent from the start
\* point to q, turns drag mode off and clears the start point, the overlay
\* closed; and no drag intent starts in a step without a recorded start point.
C31_DragProtocol == [][C31_Step]_vars

\* the drag from the VM point of PtA to the VM point of PtB is in the
\* pipeline and the view is back in Plain mode
C31_Witness ==
    /\ ~drag_mode_active /\ drag_start_point = NoPoint /\ ~show_overlay
    /\ \E w \in InFlight :
          /\ w.intent.action_type = "drag"
          /\ w.intent.details.nums = VmPoint(PtA) \o VmPoint(PtB)

\* C32: a start point is present only while drag mode is on, so that every
\* state after the drag completed or was cancelled (cancel key, right click,
\* the overlay's drag button) has no start point.
C32_StartOnlyInDragMode == drag_start_point # NoPoint => drag_mode_active

\* the first click of a drag recorded the VM point of PtA
C32_Witness ==
    /\ drag_mode_active /\ drag_start_point = VmPoint(PtA)
    /\ ~show_overlay /\ ~is_busy

C33_Cancels ==
    /\ ~drag_mode_active' /\ drag_start_point' = NoPoint
    /\ ~show_overlay'
    /\ DispatchesNothing

\* C33: with drag mode on and the overlay closed, the cancel key and a right
\* click on the view each take the session to a state with drag mode off, no
\* start point and nothing dispatched, whether or not is_busy is true.
C33_CancelWhetherBusyOrNot ==
    main_pc = "loop" /\ ~show_overlay /\ drag_mode_active =>
        /\ ENABLED (KeyDown("ESC") /\ C33_Cancels)
        /\ \A pos \in {PtA, PtB} : ENABLED (RightClick(pos) /\ C33_Cancels)

Plain == ~show_overlay /\ ~drag_mode_active

C34_Left(pos) ==
    /\ Plain /\ pos[2] >= hud_height /\ ~is_busy
          => DispatchesOne("click", VmPoint(pos)) /\ UNCHANGED uiVars
    /\ Plain /\ (is_busy \/ pos[2] < hud_height) => UNCHANGED vars
    /\ show_overlay
          => \A w \in BagToSet(workers') :
                w.intent.action_type = "click" => w \in BagToSet(workers)

C34_Right(pos) ==
    /\ Plain /\ pos[2] >= hud_height /\ ~is_busy
          => DispatchesOne("right_click", VmPoint(pos)) /\ UNCHANGED uiVars
    /\ Plain /\ (is_busy \/ pos[2] < hud_height) => UNCHANGED vars

C34_Step ==
    /\ \A pos \in ViewPoints \cup {PtDrag, PtOutside} : LeftClick(pos) => C34_Left(pos)
    /\ \A pos \in ViewPoints : RightClick(pos) => C34_Right(pos)

\* C34: with the overlay closed and no drag armed, a left click on the VM
\* area with is_busy false dispatches exactly one click intent and a right
\* click exactly one right_click intent, at the VM-space point of the click;
\* a click under is_busy or on the status strip is not a step of the program
\* (nothing changes); and a left click with the overlay shown starts no click
\* intent.
C34_PlainClicks == [][C34_Step]_vars

\* a right click on PtB went into the pipeline from Plain mode
C34_Witness ==
    /\ Plain
    /\ \E w \in InFlight :
          /\ w.intent.action_type = "right_click"
          /\ w.intent.details.nums = VmPoint(PtB)
          /\ w.pc = "save_before"

(***************************************************************************)
(* No panning under the overlay (specification SpecView).                  *)
(***************************************************************************)
\* C35: a step taken while the overlay is shown (a frame tick with the
\* pointer anywhere, an input event, a worker's step), and the step that
\* opens the overlay, leave viewport_x and viewport_y as they are.
C35_NoPanUnderOverlay == [][show_overlay \/ show_overlay' => UNCHANGED viewVars]_vars

\* the overlay is shown over a view panned to the right and down: a tick
\* with the pointer in the top-left corner would pan it back
C35_Witness ==
    /\ show_overlay
    /\ needs_viewport
    /\ viewport_x > 0 /\ viewport_y > 0

(***************************************************************************)
(* The overlay at the end of an action (specification SpecDrag).           *)
(***************************************************************************)
\* the intents that start from the live view
ViewTags == {"click", "right_click", "drag"}

\* C36: the last step of a worker closes the overlay only if its action was
\* triggered from the overlay; at the end of an action triggered from the
\* live view, show_overlay stays as the operator last set it.
C36_ViewActionKeepsOverlay ==
    [][\A w \in InFlight :
          CloseOverlay(w) /\ w.intent.action_type \in ViewTags
              => UNCHANGED show_overlay]_vars

(***************************************************************************)
(* The sleep intent in the pipeline (specification SpecFail).              *)
(***************************************************************************)
\* the statement that follows each statement of the sleep thread
SleepPcNext ==
    [save_before |-> "execute", execute |-> "record", record |-> "fetch",
     fetch |-> "display", display |-> "finally", finally |-> "close_overlay"]

\* the Step a sleep of this duration leaves in the trajectory
IsSleepStep(step, seconds) ==
    /\ step.action_type = "sleep"
    /\ step.action = "pg.sleep(" \o seconds \o ")"
    /\ step.action_details = Details(<<"seconds">>, <<>>, <<seconds>>)

\* a step of the sleep thread w
C37_Thread(w) ==
    /\ IF w.pc = "close_overlay"
       THEN workers' = workers (-) SetToBag({w})
       ELSE \E w2 \in BagToSet(workers') :
               /\ workers' = (workers (-) SetToBag({w})) (+) SetToBag({w2})
               /\ w2.kind = "sleep" /\ w2.intent = w.intent
               /\ w2.pc = SleepPcNext[w.pc]
    /\ IF w.pc = "record"
       THEN /\ Len(trajectory') = Len(trajectory) + 1
            /\ SubSeq(trajectory', 1, Len(trajectory)) = trajectory
            /\ IsSleepStep(trajectory'[Len(trajectory')],
                           w.intent.details.strs[1])
            /\ trajectory'[Len(trajectory')].step = step_count
       ELSE UNCHANGED <<trajectory, step_count>>

\* the click on the sleep Go button
C37_Go ==
    IF is_busy
    THEN UNCHANGED <<trajectory, step_count, workers, n_accepted, is_busy>>
    ELSE /\ is_busy' /\ n_accepted' = n_accepted + 1
         /\ UNCHANGED <<trajectory, step_count>>
         /\ \E w \in BagToSet(workers') :
               /\ workers' = workers (+) SetToBag({w})
               /\ w.kind = "sleep" /\ w.pc = "save_before"
               /\ w.intent.action_type = "sleep"
               /\ w.intent.details.strs
                      = <<SLEEP_PRESETS[overlay_selected_sleep + 1]>>

C37_Step ==
    /\ show_overlay /\ picker_active = None /\ LeftClick(PtSleepGo) => C37_Go
    /\ \A w \in InFlight :
          w.kind = "sleep" /\ WorkerStep(w, FailEnv) => C37_Thread(w)

\* C37: the sleep Go button under is_busy false sets is_busy and starts one
\* sleep thread for the selected duration, and under is_busy true starts
\* nothing and appends nothing; the sleep thread runs its statements in
\* order whatever the writes and fetches do (save the before-screenshot,
\* sleep, record, refresh, display, clear is_busy, close the overlay), and
\* it appends to the trajectory at the record statement only: exactly one
\* Step, with the tag sleep, the command pg.sleep(seconds) and the parameter
\* seconds.
C37_SleepAppendsOneStep == [][C37_Step]_vars

\* the sleep thread has recorded its Step and has not yet fetched the
\* screenshot, its before-screenshot having failed to be written
C37_Witness ==
    /\ trajectory # <<>>
    /\ IsSleepStep(trajectory[Len(trajectory)], SLEEP_PRESETS[1])
    /\ trajectory[Len(trajectory)].screenshot = ""
    /\ \E w \in InFlight : w.kind = "sleep" /\ w.pc = "fetch"

(***************************************************************************)
(* The text buffer and the busy gate (specification SpecType).             *)
(***************************************************************************)
\* the confirm key in text entry, or a click on the Go button of the type row
C38_Confirms ==
    \/ overlay_type_active /\ KeyDown("RETURN")
    \/ picker_active = None /\ LeftClick(PtTypeGo)

\* C38: with the overlay shown, text in the buffer and is_busy true, the
\* confirm key and the type row's Go button leave overlay_type_text as it is.
C38_TextKeptWhenBusy ==
    [][show_overlay /\ overlay_type_text # <<>> /\ is_busy /\ C38_Confirms
          => UNCHANGED overlay_type_text]_vars

(***************************************************************************)
(* After the finish trigger (specification Spec).                          *)
(***************************************************************************)
FinishInFlight == \E w \in InFlight : w.kind = "finish"

C39_Step ==
    FinishInFlight /\ is_running' =>
        /\ is_busy'
        /\ n_accepted' = n_accepted
        /\ (saved_log # NoFile => trajectory' = trajectory)

\* C39: from the finish trigger until the session ends, is_busy stays true,
\* no intent passes the busy gate, and once save_trajectory has written the
\* log no Step is appended to the trajectory.
C39_NothingAfterFinish == [][C39_Step]_vars

(***************************************************************************)
(* The end of the session (specification SpecFinish): the finish key and   *)
(* the overlay's Finish button, one click on the view while is_busy is     *)
(* false, and a finish thread whose calls may raise; the operator triggers *)
(* the finish again only after a finish thread has failed.  The finish     *)
(* thread is a thread of its own and waits for nothing: the scheduler lets *)
(* it run, which is weak fairness of its steps.                            *)
(***************************************************************************)
FinishEnv == Env({"ok"}, {"ok"}, {TRUE}, {TRUE}, {"1.0", "raise"})

NextFinish ==
    \/ Start
    \/ \E key \in {"F12", "SPACE"} : ~FinishInFlight /\ KeyDown(key)
    \/ \E pos \in ClickPoints({PtA}, {PtFinish}) :
          /\ IF pos = PtFinish THEN ~FinishInFlight ELSE ~is_busy /\ n_accepted = 0
          /\ LeftClick(pos)
    \/ LoopExit
    \/ \E w \in InFlight : WorkerStep(w, FinishEnv)

FinishThreadStep ==
    \E w \in InFlight : w.kind = "finish" /\ WorkerStep(w, FinishEnv)

SpecFinish == Init /\ [][NextFinish]_vars /\ WF_vars(FinishThreadStep)

\* the statements of finish(), in the order of the code
FinishOrder == <<"save_trajectory">> \o FinishCalls \o <<"exit">>

FinishIndex(pc) == CHOOSE k \in DOMAIN FinishOrder : FinishOrder[k] = pc

\* a step of the finish thread w: the next statement, the end of the session
\* after the last one, or the except branch of a call that raised
C40_Thread(w) ==
    \/ /\ w.pc # "exit"
       /\ \E w2 \in BagToSet(workers') :
             /\ workers' = (workers (-) SetToBag({w})) (+) SetToBag({w2})
             /\ w2.kind = "finish"
             /\ w2.pc = FinishOrder[FinishIndex(w.pc) + 1]
       /\ UNCHANGED <<is_running, is_busy>>
    \/ /\ w.pc = "exit"
       /\ workers' = workers (-) SetToBag({w})
       /\ ~is_running'
    \/ /\ \E k \in DOMAIN FinishCalls : w.pc = FinishCalls[k]
       /\ workers' = workers (-) SetToBag({w})
       /\ status_message' = "Error: " \o w.pc
       /\ ~is_busy'
       /\ UNCHANGED is_running

\* the finish key, or a click on the Finish button of the overlay
C40_Trigger ==
    \/ KeyDown("F12")
    \/ show_overlay /\ picker_active = None /\ LeftClick(PtFinish)

C40_Step ==
    /\ C40_Trigger =>
          workers' = workers (+) SetToBag({Worker("finish", "save_trajectory", NoIntent)})
    /\ \A w \in InFlight :
          w.kind = "finish" /\ WorkerStep(w, FinishEnv) => C40_Thread(w)
    /\ is_running /\ ~is_running' =>
          \E w \in InFlight : w.kind = "finish" /\ w.pc = "exit"

C40_Failed == \E k \in DOMAIN FinishCalls : status_message = "Error: " \o FinishCalls[k]

\* C40: the finish key and the Finish button start a finish thread; the
\* thread runs save_trajectory, run_evaluation, save_evaluation_score,
\* generate_colab_notebook, stop_recording and save_log in that order and
\* only then sets is_running to false; a call that raises ends the thread
\* with is_busy false and is_running unchanged; and, the finish thread being
\* scheduled fairly, a finish thread in flight leads to is_running false or
\* to such a failure.
C40_FinishTerminates ==
    /\ [][C40_Step]_vars
    /\ (\E w \in InFlight : w.kind = "finish") ~> (~is_running \/ C40_Failed)

\* the session has ended after a finish thread ran to its end, the log saved
C40_Witness ==
    /\ ~is_running /\ main_pc = "exited"
    /\ status_message = "Done! Score: 1.0"
    /\ saved_log # NoFile
    /\ InFlight = {}
====
